---- MODULE Spec2Model ----
(***************************************************************************)
(* Model of the AI-assisted interaction ingestion pipeline of prm:         *)
(* parse_llm_json (llm_service.rs), the review loop, field edits, name     *)
(* resolution and commit (cli/ai_log_command.rs), and the operations of    *)
(* the relationship store they call (ops/, validation.rs, db/).            *)
(*                                                                         *)
(* Strings are sequences of Unicode code points (Latin-1 range), so that   *)
(* trimming, splitting, substring search and the two case foldings the     *)
(* code uses (str::to_lowercase and eq_ignore_ascii_case) are computed.    *)
(* Option<T> is a sequence of length 0 (None) or 1 (Some).                 *)
(***************************************************************************)
EXTENDS Integers, Sequences, FiniteSets, TLC

\* ------------------------------------------------------------------ bounds
MaxPeople == 2      \* people added to the network before the session
MaxSteps == 2       \* iterations of the review loop before a terminal choice
MaxCorrections == 6 \* corrections saved before the session
MaxClock == 1       \* seconds that pass while they are saved
MaxSamples == 3     \* samples of a recording given to the resampler
MaxLogs == 2        \* interactions logged by direct calls of the operations
MaxLabels == 2      \* labels added to the default ones

\* ----------------------------------------------------------------- strings
sEmpty == <<>>    \* ""
sBlank == <<32, 32>>    \* "  "
sAliceSmith == <<65, 108, 105, 99, 101, 32, 83, 109, 105, 116, 104>>    \* "Alice Smith"
sAliceJones == <<65, 108, 105, 99, 101, 32, 74, 111, 110, 101, 115>>    \* "Alice Jones"
sAlice == <<65, 108, 105, 99, 101>>    \* "Alice"
s_alice == <<97, 108, 105, 99, 101>>    \* "alice"
sBob == <<66, 111, 98>>    \* "Bob"
sPadBob == <<32, 66, 111, 98>>    \* " Bob"
sEmile == <<201, 109, 105, 108, 101>>    \* "Émile"
s_emile == <<233, 109, 105, 108, 101>>    \* "émile"
sEmileZ == <<201, 109, 105, 108, 101, 32, 90>>    \* "Émile Z"
sSam == <<83, 97, 109>>    \* "Sam"
sAli == <<65, 108, 105>>    \* "Ali"
sCafe == <<67, 97, 102, 101>>    \* "Cafe"
sPark == <<80, 97, 114, 107>>    \* "Park"
sPadPark == <<32, 80, 97, 114, 107, 32>>    \* " Park "
sHome == <<72, 111, 109, 101>>    \* "Home"
sJob == <<106, 111, 98>>    \* "job"
sPadJob == <<32, 106, 111, 98>>    \* " job"
sTrip == <<116, 114, 105, 112>>    \* "trip"
sNote == <<102, 117, 110>>    \* "fun"
sDate == <<50, 48, 50, 52, 45, 48, 49, 45, 48, 53>>    \* "2024-01-05"
sBadDate == <<115, 111, 111, 110>>    \* "soon"
sInPerson == <<73, 110, 80, 101, 114, 115, 111, 110>>    \* "InPerson"
sText == <<84, 101, 120, 116>>    \* "Text"
sPhoneCall == <<80, 104, 111, 110, 101, 67, 97, 108, 108>>    \* "PhoneCall"
sVideoCall == <<86, 105, 100, 101, 111, 67, 97, 108, 108>>    \* "VideoCall"
sSocialMedia == <<83, 111, 99, 105, 97, 108, 77, 101, 100, 105, 97>>    \* "SocialMedia"
sZoom == <<90, 111, 111, 109>>    \* "Zoom"
sCoffee == <<99, 111, 102, 102, 101, 101>>    \* "coffee"
sTea == <<116, 101, 97>>    \* "tea"
sWav == <<97, 46, 119, 97, 118>>    \* "a.wav"
str_s == <<115>>    \* "s"
str_S == <<83>>    \* "S"
str_save == <<115, 97, 118, 101>>    \* "save"
str_e == <<101>>    \* "e"
str_edit == <<101, 100, 105, 116>>    \* "edit"
str_d == <<100>>    \* "d"
str_discard == <<100, 105, 115, 99, 97, 114, 100>>    \* "discard"
str_Discard == <<68, 105, 115, 99, 97, 114, 100>>    \* "Discard"
str_x == <<120>>    \* "x"
str_y == <<121>>    \* "y"
str_yes == <<121, 101, 115>>    \* "yes"
str_Yes == <<89, 101, 115>>    \* "Yes"
str_n == <<110>>    \* "n"
str_1 == <<49>>    \* "1"
str_2 == <<50>>    \* "2"
str_3 == <<51>>    \* "3"
str_4 == <<52>>    \* "4"
str_5 == <<53>>    \* "5"
str_6 == <<54>>    \* "6"
str_7 == <<55>>    \* "7"
str_9 == <<57>>    \* "9"
sFriend == <<70, 114, 105, 101, 110, 100>>    \* "Friend"
s_friend == <<102, 114, 105, 101, 110, 100>>    \* "friend"
sPadWork == <<32, 87, 111, 114, 107, 32>>    \* " Work "
s_work == <<119, 111, 114, 107>>    \* "work"
sEcole == <<201, 99, 111, 108, 101>>    \* "École"
s_ecole == <<233, 99, 111, 108, 101>>    \* "école"
inPeopleAliceBob == <<32, 97, 108, 105, 99, 101, 32, 44, 44, 32, 66, 111, 98>>    \* " alice ,, Bob"
inCommas == <<44, 32, 44>>    \* ", ,"
inTopics == <<106, 111, 98, 44, 32, 44, 116, 114, 105, 112>>    \* "job, ,trip"

None == <<>>
Some(x) == <<x>>

\* char::is_whitespace, restricted to Latin-1
IsWhitespace(c) == c \in {9, 10, 11, 12, 13, 32, 133, 160}

\* char::to_lowercase, restricted to Latin-1 (A-Z and the accented capitals)
LowerChar(c) ==
    IF (c >= 65 /\ c <= 90) \/ (c >= 192 /\ c <= 214) \/ (c >= 216 /\ c <= 222)
    THEN c + 32 ELSE c

\* str::to_lowercase
to_lowercase(s) == [i \in 1..Len(s) |-> LowerChar(s[i])]

\* u8::to_ascii_lowercase: only A-Z fold
AsciiLowerChar(c) == IF c >= 65 /\ c <= 90 THEN c + 32 ELSE c

\* str::eq_ignore_ascii_case
eq_ignore_ascii_case(a, b) ==
    /\ Len(a) = Len(b)
    /\ \A i \in 1..Len(a) : AsciiLowerChar(a[i]) = AsciiLowerChar(b[i])

\* str::contains(&str)
contains(hay, needle) ==
    \E i \in 0..(Len(hay) - Len(needle)) :
        SubSeq(hay, i + 1, i + Len(needle)) = needle

\* str::trim
RECURSIVE TrimStart(_)
TrimStart(s) ==
    IF s # <<>> /\ IsWhitespace(Head(s)) THEN TrimStart(Tail(s)) ELSE s

RECURSIVE TrimEnd(_)
TrimEnd(s) ==
    IF s # <<>> /\ IsWhitespace(s[Len(s)]) THEN TrimEnd(SubSeq(s, 1, Len(s) - 1)) ELSE s

trim(s) == TrimEnd(TrimStart(s))

\* str::split(','): the pieces between commas, empty pieces included
RECURSIVE SplitFrom(_, _)
SplitFrom(s, acc) ==
    IF s = <<>> THEN <<acc>>
    ELSE IF Head(s) = 44 THEN <<acc>> \o SplitFrom(Tail(s), <<>>)
    ELSE SplitFrom(Tail(s), Append(acc, Head(s)))

split_comma(s) == SplitFrom(s, <<>>)

NonEmptyStr(s) == s # <<>>

\* input.split(',').map(|s| s.trim().to_string()).filter(|s| !s.is_empty())
split_trim_nonempty(input) ==
    LET parts == split_comma(input)
        trimmed == [i \in 1..Len(parts) |-> trim(parts[i])]
    IN SelectSeq(trimmed, NonEmptyStr)

\* byte-wise string order (SQLite BINARY collation, Rust Ord for str)
RECURSIVE StrLess(_, _)
StrLess(a, b) ==
    IF b = <<>> THEN FALSE
    ELSE IF a = <<>> THEN TRUE
    ELSE IF Head(a) # Head(b) THEN Head(a) < Head(b)
    ELSE StrLess(Tail(a), Tail(b))

\* -------------------------------------------------------- validation.rs
\* non_blank: Ok(trimmed) or Err(BlankField)
non_blank(value) ==
    LET t == trim(value)
    IN IF t = <<>> THEN [ok |-> FALSE, value |-> <<>>]
       ELSE [ok |-> TRUE, value |-> t]

\* trim_optional: Some(trimmed) unless absent or blank
trim_optional(opt) ==
    IF opt = None THEN None
    ELSE IF trim(opt[1]) = <<>> THEN None ELSE Some(trim(opt[1]))

\* non_empty_set: Ok iff the slice is non-empty
non_empty_set(value) == value # <<>>

\* ------------------------------------------------- serde_json::Value
\* A JSON value: t is the kind, s the text of a string, a the elements of
\* an array.  JAbsent is the None of Value::get on a missing key.
JAbsent == [t |-> "absent", s |-> <<>>, a |-> <<>>]
JNull == [t |-> "null", s |-> <<>>, a |-> <<>>]
JNum == [t |-> "num", s |-> <<>>, a |-> <<>>]
JStr(s) == [t |-> "str", s |-> s, a |-> <<>>]
JArr(a) == [t |-> "arr", s |-> <<>>, a |-> a]

JsonKeys == {"personNames", "personName", "medium", "location",
             "theirLocation", "topics", "note", "date"}

\* the text the model returned: not JSON at all, JSON that is not an
\* object, or an object with some of the keys
Malformed == [kind |-> "malformed", obj |-> [k \in JsonKeys |-> JAbsent]]
NonObject == [kind |-> "nonobject", obj |-> [k \in JsonKeys |-> JAbsent]]
JObject(o) == [kind |-> "object", obj |-> o]

\* Value::get(key): None unless the value is an object holding the key
json_get(content, key) ==
    IF content.kind = "object" THEN content.obj[key] ELSE JAbsent

\* Value::as_str as an Option
as_str(v) == IF v.t = "str" THEN Some(v.s) ELSE None

IsJStr(v) == v.t = "str"

\* arr.iter().filter_map(|v| v.as_str().map(|s| s.to_string()))
strings_of(arr) ==
    LET strs == SelectSeq(arr, IsJStr)
    IN [i \in 1..Len(strs) |-> strs[i].s]

\* ------------------------------------------------ ParsedInteraction
NoParsed ==
    [person_names |-> <<>>, medium |-> <<>>, location |-> <<>>,
     their_location |-> None, topics |-> <<>>, note |-> None, date |-> None]

ParseErr(e) == [ok |-> FALSE, err |-> e, value |-> NoParsed]
ParseOk(p) == [ok |-> TRUE, err |-> "", value |-> p]

\* llm_service.rs parse_llm_json, lines 143-158: the person names
parsed_person_names(content) ==
    LET pn == json_get(content, "personNames")
        legacy == as_str(json_get(content, "personName"))
    IN IF pn.t = "arr"
       THEN SelectSeq(strings_of(pn.a), NonEmptyStr)
       ELSE IF legacy # None /\ legacy[1] # <<>> THEN <<legacy[1]>> ELSE <<>>

\* lines 177-185: topics; non-strings dropped, empty strings kept
parsed_topics(content) ==
    LET tp == json_get(content, "topics")
    IN IF tp.t = "arr" THEN strings_of(tp.a) ELSE <<>>

\* the topics check comes before the people check
parse_llm_json_topics_first(content) ==
    IF content.kind = "malformed" THEN ParseErr("MalformedResponse")
    ELSE IF parsed_topics(content) = <<>> THEN ParseErr("NoTopicsExtracted")
    ELSE IF parsed_person_names(content) = <<>> THEN ParseErr("NoPeopleExtracted")
    ELSE ParseOk([NoParsed EXCEPT !.person_names = parsed_person_names(content),
                                  !.topics = parsed_topics(content)])

\* a medium string outside the five enum values is replaced by the default
parse_llm_json_medium_checked(content) ==
    IF content.kind = "malformed" THEN ParseErr("MalformedResponse")
    ELSE
    LET person_names == parsed_person_names(content)
        mediumv == as_str(json_get(content, "medium"))
        locv == as_str(json_get(content, "location"))
        topics == parsed_topics(content)
    IN IF person_names = <<>> THEN ParseErr("NoPeopleExtracted")
       ELSE IF topics = <<>> THEN ParseErr("NoTopicsExtracted")
       ELSE ParseOk(
            [person_names |-> person_names,
             medium |-> IF mediumv = None \/ mediumv[1] \notin {sInPerson, sText}
                        THEN sInPerson ELSE mediumv[1],
             location |-> IF locv = None THEN <<>> ELSE locv[1],
             their_location |-> as_str(json_get(content, "theirLocation")),
             topics |-> topics,
             note |-> as_str(json_get(content, "note")),
             date |-> as_str(json_get(content, "date"))])

\* llm_service.rs parse_llm_json
parse_llm_json(content) ==
    IF content.kind = "malformed" THEN ParseErr("MalformedResponse")
    ELSE
    LET person_names == parsed_person_names(content)
        mediumv == as_str(json_get(content, "medium"))
        locv == as_str(json_get(content, "location"))
        topics == parsed_topics(content)
    IN IF person_names = <<>> THEN ParseErr("NoPeopleExtracted")
       ELSE IF topics = <<>> THEN ParseErr("NoTopicsExtracted")
       ELSE ParseOk(
            [person_names |-> person_names,
             medium |-> IF mediumv = None THEN sInPerson ELSE mediumv[1],
             location |-> IF locv = None THEN <<>> ELSE locv[1],
             their_location |-> as_str(json_get(content, "theirLocation")),
             topics |-> topics,
             note |-> as_str(json_get(content, "note")),
             date |-> as_str(json_get(content, "date"))])

\* serde_json::to_string(&ParsedInteraction): the fields in declaration
\* order, Option::None as null
JOpt(o) == IF o = None THEN JNull ELSE JStr(o[1])

JStrs(xs) == JArr([i \in 1..Len(xs) |-> JStr(xs[i])])

serde_to_string(p) ==
    << <<"person_names", JStrs(p.person_names)>>,
       <<"medium", JStr(p.medium)>>,
       <<"location", JStr(p.location)>>,
       <<"their_location", JOpt(p.their_location)>>,
       <<"topics", JStrs(p.topics)>>,
       <<"note", JOpt(p.note)>>,
       <<"date", JOpt(p.date)>> >>

\* ------------------------------------------------------ model/person.rs
\* Person::create / Person::create_self; the id is the index in the store
Person(name, nickname, is_self) ==
    [name |-> name, nickname |-> nickname, is_self |-> is_self, archived |-> FALSE]

\* ---------------------------------------------------- ops/person_ops.rs
\* the person is stored under the name as given
add_person_untrimmed(ppl, rels, name, nickname) ==
    LET valid_name == non_blank(name)
        id == Len(ppl) + 1
    IN IF ~valid_name.ok
       THEN [ok |-> FALSE, id |-> 0, people |-> ppl, relationships |-> rels]
       ELSE [ok |-> TRUE, id |-> id,
             people |-> Append(ppl, Person(name, trim_optional(nickname), FALSE)),
             relationships |-> rels \cup {id}]

\* add_person: Err(BlankField) for a blank name, else the person is
\* inserted under the trimmed name and given a default relationship
add_person(ppl, rels, name, nickname) ==
    LET valid_name == non_blank(name)
        id == Len(ppl) + 1
    IN IF ~valid_name.ok
       THEN [ok |-> FALSE, id |-> 0, people |-> ppl, relationships |-> rels]
       ELSE [ok |-> TRUE, id |-> id,
             people |-> Append(ppl, Person(valid_name.value, trim_optional(nickname), FALSE)),
             relationships |-> rels \cup {id}]

\* the user's own record is archived like any other
archive_person_unguarded(ppl, person_id) ==
    IF person_id \notin 1..Len(ppl) THEN [ok |-> FALSE, err |-> "NotFound", people |-> ppl]
    ELSE [ok |-> TRUE, err |-> "",
          people |-> [ppl EXCEPT ![person_id].archived = TRUE]]

\* unarchive_person: Err(NotFound), or the person is stored with
\* archived = false
unarchive_person(ppl, person_id) ==
    IF person_id \notin 1..Len(ppl) THEN [ok |-> FALSE, err |-> "NotFound", people |-> ppl]
    ELSE [ok |-> TRUE, err |-> "",
          people |-> [ppl EXCEPT ![person_id].archived = FALSE]]

\* archive_person: Err(NotFound), Err(CannotArchiveSelf), or the person is
\* stored with archived = true
archive_person(ppl, person_id) ==
    IF person_id \notin 1..Len(ppl) THEN [ok |-> FALSE, err |-> "NotFound", people |-> ppl]
    ELSE IF ppl[person_id].is_self
    THEN [ok |-> FALSE, err |-> "CannotArchiveSelf", people |-> ppl]
    ELSE [ok |-> TRUE, err |-> "",
          people |-> [ppl EXCEPT ![person_id].archived = TRUE]]

\* person_repo::find_active_by_owner: the ids of the people with archived = 0
active_people(ppl) == {i \in 1..Len(ppl) : ~ppl[i].archived}

\* ------------------------------------------------- model/interaction.rs
\* InteractionMedium is the string of its variant
MediumNames == {sInPerson, sText, sPhoneCall, sVideoCall, sSocialMedia}

\* their_location is left unset
create_in_person_unmirrored(person, location, topics, note, date) ==
    [person |-> person, medium |-> sInPerson, my_location |-> location,
     their_location |-> None, topics |-> topics, note |-> note,
     date |-> date]

\* Interaction::create_in_person: their_location mirrors location
create_in_person(person, location, topics, note, date) ==
    [person |-> person, medium |-> sInPerson, my_location |-> location,
     their_location |-> Some(location), topics |-> topics, note |-> note,
     date |-> date]

\* Interaction::create_remote
create_remote(person, medium, my_location, their_location, topics, note, date) ==
    [person |-> person, medium |-> medium, my_location |-> my_location,
     their_location |-> their_location, topics |-> topics, note |-> note,
     date |-> date]

NoInteraction == create_remote(0, <<>>, <<>>, None, <<>>, None, <<>>)

\* topics.into_iter().map(|t| t.trim().to_string()).filter(|t| !t.is_empty())
valid_topics_of(topics) ==
    SelectSeq([i \in 1..Len(topics) |-> trim(topics[i])], NonEmptyStr)

\* ----------------------------------------------- ops/interaction_ops.rs
\* the topics are stored as given, without the non-empty check
log_in_person_unchecked_topics(ppl, person_id, location, topics, note, date) ==
    LET valid_location == non_blank(location)
    IN IF person_id \notin 1..Len(ppl)
       THEN [ok |-> FALSE, err |-> "NotFound", row |-> NoInteraction]
       ELSE IF ~valid_location.ok
       THEN [ok |-> FALSE, err |-> "BlankField", row |-> NoInteraction]
       ELSE [ok |-> TRUE, err |-> "",
             row |-> create_in_person(person_id, valid_location.value,
                                      valid_topics_of(topics), trim_optional(note), date)]

\* log_in_person: the row to insert, or the error
log_in_person(ppl, person_id, location, topics, note, date) ==
    LET valid_location == non_blank(location)
        valid_topics == valid_topics_of(topics)
    IN IF person_id \notin 1..Len(ppl)
       THEN [ok |-> FALSE, err |-> "NotFound", row |-> NoInteraction]
       ELSE IF ~valid_location.ok
       THEN [ok |-> FALSE, err |-> "BlankField", row |-> NoInteraction]
       ELSE IF ~non_empty_set(valid_topics)
       THEN [ok |-> FALSE, err |-> "EmptySet", row |-> NoInteraction]
       ELSE [ok |-> TRUE, err |-> "",
             row |-> create_in_person(person_id, valid_location.value,
                                      valid_topics, trim_optional(note), date)]

\* log_remote
log_remote(ppl, person_id, medium, my_location, their_location, topics, note, date) ==
    LET valid_my_location == non_blank(my_location)
        valid_topics == valid_topics_of(topics)
    IN IF medium = sInPerson
       THEN [ok |-> FALSE, err |-> "UseInPersonMethod", row |-> NoInteraction]
       ELSE IF person_id \notin 1..Len(ppl)
       THEN [ok |-> FALSE, err |-> "NotFound", row |-> NoInteraction]
       ELSE IF ~valid_my_location.ok
       THEN [ok |-> FALSE, err |-> "BlankField", row |-> NoInteraction]
       ELSE IF ~non_empty_set(valid_topics)
       THEN [ok |-> FALSE, err |-> "EmptySet", row |-> NoInteraction]
       ELSE [ok |-> TRUE, err |-> "",
             row |-> create_remote(person_id, medium, valid_my_location.value,
                                   trim_optional(their_location), valid_topics,
                                   trim_optional(note), date)]

\* ------------------------------------------------ cli/ai_log_command.rs
\* an unknown string is taken for a video call
parse_medium_as_video_call(s) == IF s \in MediumNames THEN s ELSE sVideoCall

\* parse_medium: an unknown string defaults to InPerson
parse_medium(s) == IF s \in MediumNames THEN s ELSE sInPerson

\* CLIContext::today
Today == <<50, 48, 50, 54, 45, 49, 49, 45, 48, 49>>    \* "2026-11-01"

IsDigit(c) == c >= 48 /\ c <= 57

Num2(a, b) == (a - 48) * 10 + (b - 48)

\* parse_date: NaiveDate::parse_from_str(s, "%Y-%m-%d") for the zero-padded
\* form YYYY-MM-DD; the date is kept as its ISO text
parse_date(s) ==
    IF /\ Len(s) = 10
       /\ \A i \in {1, 2, 3, 4, 6, 7, 9, 10} : IsDigit(s[i])
       /\ s[5] = 45 /\ s[8] = 45
       /\ Num2(s[6], s[7]) \in 1..12
       /\ Num2(s[9], s[10]) \in 1..31
    THEN Some(s) ELSE None

\* the comparison of the two serialisations is left out
maybe_save_correction_always(corr, original, ai_orig, user_final) ==
    Append(corr, [original_text |-> original,
                  ai_output |-> serde_to_string(ai_orig),
                  user_output |-> serde_to_string(user_final)])

\* maybe_save_correction: the corrections table after the call
maybe_save_correction(corr, original, ai_orig, user_final) ==
    LET ai_json == serde_to_string(ai_orig)
        user_json == serde_to_string(user_final)
    IN IF ai_json # user_json
       THEN Append(corr, [original_text |-> original, ai_output |-> ai_json,
                          user_output |-> user_json])
       ELSE corr

\* the entered names are added to the list instead of replacing it
edit_people_appends(parsed, input) ==
    LET names == split_trim_nonempty(input)
    IN IF input # <<>> /\ names # <<>>
       THEN [parsed EXCEPT !.person_names = parsed.person_names \o names] ELSE parsed

\* edit_field, lines 123-138: field 1, People
edit_people(parsed, input) ==
    LET names == split_trim_nonempty(input)
    IN IF input # <<>> /\ names # <<>>
       THEN [parsed EXCEPT !.person_names = names] ELSE parsed

\* a selection outside the menu is taken as the medium's name
edit_medium_accepts_any(parsed, input) ==
    [parsed EXCEPT !.medium =
        IF input = str_1 THEN sInPerson
        ELSE IF input = str_2 THEN sText
        ELSE IF input = str_3 THEN sPhoneCall
        ELSE IF input = str_4 THEN sVideoCall
        ELSE IF input = str_5 THEN sSocialMedia
        ELSE IF input = <<>> THEN parsed.medium
        ELSE input]

\* edit_field, lines 139-156: field 2, Medium
edit_medium(parsed, input) ==
    [parsed EXCEPT !.medium =
        IF input = str_1 THEN sInPerson
        ELSE IF input = str_2 THEN sText
        ELSE IF input = str_3 THEN sPhoneCall
        ELSE IF input = str_4 THEN sVideoCall
        ELSE IF input = str_5 THEN sSocialMedia
        ELSE parsed.medium]

\* the location is set without the is_empty test
edit_location_unchecked(parsed, input) == [parsed EXCEPT !.location = input]

\* edit_field, lines 157-169: field 3, Location
edit_location(parsed, input) ==
    IF input # <<>> THEN [parsed EXCEPT !.location = input] ELSE parsed

\* the topics typed replace the list even when none is left
edit_topics_unchecked(parsed, input) ==
    IF input # <<>> THEN [parsed EXCEPT !.topics = split_trim_nonempty(input)]
    ELSE parsed

\* edit_field, lines 186-201: field 5, Topics
edit_topics(parsed, input) ==
    LET new_topics == split_trim_nonempty(input)
    IN IF input # <<>> /\ new_topics # <<>>
       THEN [parsed EXCEPT !.topics = new_topics] ELSE parsed

\* edit_field, lines 122-221: the record after the value prompt of field
\* `field` returned `input` (already unwrap_or_default'ed)
edit_field(parsed, field, input) ==
    IF field = str_1 THEN edit_people(parsed, input)
    ELSE IF field = str_2 THEN edit_medium(parsed, input)
    ELSE IF field = str_3 THEN edit_location(parsed, input)
    ELSE IF field = str_4 THEN
        IF parsed.medium # sInPerson /\ input # <<>>
        THEN [parsed EXCEPT !.their_location = Some(input)] ELSE parsed
    ELSE IF field = str_5 THEN edit_topics(parsed, input)
    ELSE IF field = str_6 THEN
        IF input # <<>> THEN [parsed EXCEPT !.note = Some(input)] ELSE parsed
    ELSE IF field = str_7 THEN
        IF input # <<>> THEN [parsed EXCEPT !.date = Some(input)] ELSE parsed
    ELSE parsed

\* field 4 asks for a value whatever the medium
field_prompts_value_any_medium(parsed, field) ==
    field \in {str_1, str_2, str_3, str_4, str_5, str_6, str_7}

\* edit_field reads a value only for fields 1-7, and not for field 4 of an
\* in-person interaction
field_prompts_value(parsed, field) ==
    \/ field \in {str_1, str_2, str_3, str_5, str_6, str_7}
    \/ field = str_4 /\ parsed.medium # sInPerson

\* resolve_person, lines 340-351: the active people whose name or nickname
\* contains the lower-cased query
person_matches(ppl, name) ==
    LET lower == to_lowercase(name)
    IN {i \in active_people(ppl) :
            \/ contains(to_lowercase(ppl[i].name), lower)
            \/ /\ ppl[i].nickname # None
               /\ contains(to_lowercase(ppl[i].nickname[1]), lower)}

\* matches.iter().find(|p| p.name.eq_ignore_ascii_case(name)): the matches
\* come ORDER BY name, so the first exact match has the least name; rows of
\* equal name come in an order SQL leaves open
first_exact(ppl, matches, name) ==
    LET exact == {i \in matches : eq_ignore_ascii_case(ppl[i].name, name)}
    IN {i \in exact : \A j \in exact : ~StrLess(ppl[j].name, ppl[i].name)}

Resolution(tag, person, cands) == [tag |-> tag, person |-> person, cands |-> cands]

\* several matches without an exact one resolve to any of the matches
resolve_person_picks_a_match(ppl, name) ==
    LET matches == person_matches(ppl, name)
    IN IF matches # {}
       THEN {Resolution("Resolved", i, matches) : i \in matches}
       ELSE {Resolution("NotFound", 0, matches)}

\* resolve_person, lines 353-366: the results the lookup can give
resolve_person(ppl, name) ==
    LET matches == person_matches(ppl, name)
        n == Cardinality(matches)
    IN IF n = 1
       THEN {Resolution("Resolved", i, matches) : i \in matches}
       ELSE IF n > 1
       THEN IF first_exact(ppl, matches, name) # {}
            THEN {Resolution("Resolved", i, matches) : i \in first_exact(ppl, matches, name)}
            ELSE {Resolution("Ambiguous", 0, matches)}
       ELSE {Resolution("NotFound", 0, matches)}

\* CLIContext::find_person: the same lookup for a trimmed query; an empty
\* query finds nobody
find_person(ppl, args) ==
    LET query == trim(args)
        matches == person_matches(ppl, query)
        n == Cardinality(matches)
    IN IF query = <<>> THEN {Resolution("EmptyQuery", 0, {})}
       ELSE IF n = 0 THEN {Resolution("NotFound", 0, matches)}
       ELSE IF n = 1 THEN {Resolution("Resolved", i, matches) : i \in matches}
       ELSE IF first_exact(ppl, matches, query) # {}
       THEN {Resolution("Resolved", i, matches) : i \in first_exact(ppl, matches, query)}
       ELSE {Resolution("Ambiguous", 0, matches)}

\* what the database does to one log_in_person / log_remote call: nothing,
\* an error before the first write (find_by_id, find_by_person or the
\* relationship upsert fails), or an error of interaction_repo::insert
Faults == {"none", "relationship", "insert"}

CommitEntry(person, ok, err) == [person |-> person, ok |-> ok, err |-> err]

\* interaction_repo::insert, lines 23-28: the topic rows of one interaction
\* are inserted one by one; a topic that is already among them violates
\* PRIMARY KEY (interaction_id, topic) and ends the loop with the error
RECURSIVE insert_topics(_, _)
insert_topics(done, rest) ==
    IF rest = <<>> THEN [ok |-> TRUE, topics |-> done]
    ELSE IF \E i \in 1..Len(done) : done[i] = Head(rest)
    THEN [ok |-> FALSE, topics |-> done]
    ELSE insert_topics(Append(done, Head(rest)), Tail(rest))

\* interaction_repo::insert: the interaction row, then its topic rows, each
\* statement committed on its own; the table after the call
interaction_insert(inter, row, fault) ==
    IF fault = "insert" THEN [ok |-> FALSE, interactions |-> inter]
    ELSE LET t == insert_topics(<<>>, row.topics)
         IN [ok |-> t.ok,
             interactions |-> Append(inter, [row EXCEPT !.topics = t.topics])]

\* log_in_person, lines 18-43, and log_remote, lines 61-87, on the store:
\* the validation's error, or ensure_relationship and
\* interaction_repo::insert; result is what log_in_person / log_remote
\* below computed
log_store(result, person_id, rels, inter, fault) ==
    IF ~result.ok
    THEN [ok |-> FALSE, err |-> result.err, relationships |-> rels, interactions |-> inter]
    ELSE IF fault = "relationship"
    THEN [ok |-> FALSE, err |-> "Database", relationships |-> rels, interactions |-> inter]
    ELSE LET ins == interaction_insert(inter, result.row, fault)
         IN [ok |-> ins.ok, err |-> IF ins.ok THEN "" ELSE "Database",
             relationships |-> rels \cup {person_id},
             interactions |-> ins.interactions]

\* the first failed log ends the loop
RECURSIVE commit_all_stops_at_failure(_, _, _, _, _, _, _)
commit_all_stops_at_failure(ppl, persons, parsed, inter, rels, faults, log) ==
    IF persons = <<>> THEN [interactions |-> inter, relationships |-> rels, log |-> log]
    ELSE
    LET medium == parse_medium(parsed.medium)
        date == IF parsed.date # None /\ parse_date(parsed.date[1]) # None
                THEN parse_date(parsed.date[1])[1] ELSE Today
        result == IF medium = sInPerson
                  THEN log_in_person(ppl, Head(persons), parsed.location,
                                     parsed.topics, parsed.note, date)
                  ELSE log_remote(ppl, Head(persons), medium, parsed.location,
                                  parsed.their_location, parsed.topics,
                                  parsed.note, date)
    IN IF ~result.ok \/ Head(faults) # "none"
       THEN [interactions |-> inter, relationships |-> rels,
             log |-> Append(log, CommitEntry(Head(persons), FALSE, "Database"))]
       ELSE commit_all_stops_at_failure(ppl, Tail(persons), parsed,
                       Append(inter, result.row), rels \cup {Head(persons)},
                       Tail(faults), Append(log, CommitEntry(Head(persons), TRUE, "")))

\* save_interaction, lines 298-336: log the interaction for each resolved
\* person in turn; a failed log is reported and the loop goes on.  faults
\* gives the database's behaviour for each person; log collects the line
\* printed for each
RECURSIVE commit_all(_, _, _, _, _, _, _)
commit_all(ppl, persons, parsed, inter, rels, faults, log) ==
    IF persons = <<>> THEN [interactions |-> inter, relationships |-> rels, log |-> log]
    ELSE
    LET medium == parse_medium(parsed.medium)
        date == IF parsed.date # None /\ parse_date(parsed.date[1]) # None
                THEN parse_date(parsed.date[1])[1] ELSE Today
        result == IF medium = sInPerson
                  THEN log_in_person(ppl, Head(persons), parsed.location,
                                     parsed.topics, parsed.note, date)
                  ELSE log_remote(ppl, Head(persons), medium, parsed.location,
                                  parsed.their_location, parsed.topics,
                                  parsed.note, date)
        logged == log_store(result, Head(persons), rels, inter, Head(faults))
    IN commit_all(ppl, Tail(persons), parsed, logged.interactions,
                  logged.relationships, Tail(faults),
                  Append(log, CommitEntry(Head(persons), logged.ok, logged.err)))

\* ----------------------------------------------------- ops/label_ops.rs
\* RelationshipLabel::defaults: me, friend, family, coworker, acquaintance, mentor,
\* mentee, neighbor, former coworker, romantic partner, former romantic partner
DefaultLabelNames ==
    << <<109, 101>>,
       <<102, 114, 105, 101, 110, 100>>,
       <<102, 97, 109, 105, 108, 121>>,
       <<99, 111, 119, 111, 114, 107, 101, 114>>,
       <<97, 99, 113, 117, 97, 105, 110, 116, 97, 110, 99, 101>>,
       <<109, 101, 110, 116, 111, 114>>,
       <<109, 101, 110, 116, 101, 101>>,
       <<110, 101, 105, 103, 104, 98, 111, 114>>,
       <<102, 111, 114, 109, 101, 114, 32, 99, 111, 119, 111, 114, 107, 101, 114>>,
       <<114, 111, 109, 97, 110, 116, 105, 99, 32, 112, 97, 114, 116, 110, 101, 114>>,
       <<102, 111, 114, 109, 101, 114, 32, 114, 111, 109, 97, 110, 116, 105, 99, 32, 112, 97, 114, 116, 110, 101, 114>> >>

\* RelationshipLabel::create
Label(name) == [name |-> name, archived |-> FALSE]

\* relationship_repo::find_label_by_name: the rows whose name equals the
\* given one under COLLATE NOCASE, which folds the 26 letters A-Z only
find_label_by_name(lbls, name) ==
    {i \in 1..Len(lbls) : eq_ignore_ascii_case(lbls[i].name, name)}

LabelResult(ok, err, lbls) == [ok |-> ok, err |-> err, labels |-> lbls]

\* add_label
add_label(lbls, name) ==
    LET valid_name == non_blank(name)
    IN IF ~valid_name.ok THEN LabelResult(FALSE, "BlankField", lbls)
       ELSE IF find_label_by_name(lbls, valid_name.value) # {}
       THEN LabelResult(FALSE, "AlreadyExists", lbls)
       ELSE LabelResult(TRUE, "", Append(lbls, Label(valid_name.value)))

\* update_label; name is an Option.  find_label_by_name gives one row, any
\* of those that match
update_label(lbls, label_id, name) ==
    IF label_id \notin 1..Len(lbls) THEN LabelResult(FALSE, "NotFound", lbls)
    ELSE IF name = None THEN LabelResult(TRUE, "", lbls)
    ELSE LET valid_name == non_blank(name[1])
         IN IF ~valid_name.ok THEN LabelResult(FALSE, "BlankField", lbls)
            ELSE IF \E existing \in find_label_by_name(lbls, valid_name.value) :
                        existing # label_id
            THEN LabelResult(FALSE, "AlreadyExists", lbls)
            ELSE LabelResult(TRUE, "", [lbls EXCEPT ![label_id].name = valid_name.value])

\* archive_label
archive_label(lbls, label_id) ==
    IF label_id \notin 1..Len(lbls) THEN LabelResult(FALSE, "NotFound", lbls)
    ELSE LabelResult(TRUE, "", [lbls EXCEPT ![label_id].archived = TRUE])

\* unarchive_label
unarchive_label(lbls, label_id) ==
    IF label_id \notin 1..Len(lbls) THEN LabelResult(FALSE, "NotFound", lbls)
    ELSE LabelResult(TRUE, "", [lbls EXCEPT ![label_id].archived = FALSE])

\* ------------------------------------------------- ai/whisper_service.rs
\* A sample is counted in units of 2^-15 (a 16-bit sample v is v / 2^15).
\* The recordings below have samples that are multiples of 4 units and
\* rates whose ratio is a multiple of 1/4, so ratio, src, frac and every
\* product and sum of resample are exact in f64 and f32, and are the
\* integer values computed here.

\* an index past the end reads as the last sample read, not as 0.0
resample_holds_last(samples, from_rate, to_rate) ==
    LET new_len == (Len(samples) * to_rate + from_rate - 1) \div from_rate
    IN [k \in 1..new_len |->
          LET src_num == (k - 1) * from_rate
              src_i == src_num \div to_rate
              frac_num == src_num % to_rate
              a == IF src_i + 1 <= Len(samples) THEN samples[src_i + 1] ELSE 0
              b == IF src_i + 2 <= Len(samples) THEN samples[src_i + 2] ELSE a
          IN a + ((b - a) * frac_num) \div to_rate]

\* resample: ratio = from_rate / to_rate, new_len = ceil(len / ratio), and
\* output i (from 0) blends samples[floor(i * ratio)] and the next one by
\* the fractional part of i * ratio; samples.get(..).unwrap_or(0.0)
resample(samples, from_rate, to_rate) ==
    LET new_len == (Len(samples) * to_rate + from_rate - 1) \div from_rate
    IN [k \in 1..new_len |->
          LET src_num == (k - 1) * from_rate
              src_i == src_num \div to_rate
              frac_num == src_num % to_rate
              a == IF src_i + 1 <= Len(samples) THEN samples[src_i + 1] ELSE 0
              b == IF src_i + 2 <= Len(samples) THEN samples[src_i + 2] ELSE 0
          IN a + ((b - a) * frac_num) \div to_rate]

\* the mono samples of a decoded recording with its rate, and the rate asked
Recording(samples, from_rate, to_rate) ==
    [samples |-> samples, from_rate |-> from_rate, to_rate |-> to_rate]

NoRecording == Recording(<<>>, 0, 0)

RECURSIVE SamplesUpTo(_)
SamplesUpTo(n) ==
    IF n = 0 THEN {<<>>}
    ELSE SamplesUpTo(n - 1) \cup
         {Append(x, v) : x \in {y \in SamplesUpTo(n - 1) : Len(y) = n - 1},
                         v \in {-8, 0, 4}}

\* the recordings the resampler is tried on
Recordings ==
    { Recording(x, f, t) : x \in SamplesUpTo(MaxSamples),
                           f \in {4000, 8000, 16000, 24000, 32000, 48000},
                           t \in {8000, 16000} }

\* ------------------------------------------------------------- inputs
\* a model reply as a JSON object; JAbsent leaves the key out
Reply(pn, legacy, medium, location, their, topics, note, date) ==
    JObject([k \in JsonKeys |->
        CASE k = "personNames" -> pn
          [] k = "personName" -> legacy
          [] k = "medium" -> medium
          [] k = "location" -> location
          [] k = "theirLocation" -> their
          [] k = "topics" -> topics
          [] k = "note" -> note
          [] k = "date" -> date])

\* the replies of the sessions that are followed through review and save
SessionReplies ==
    { Reply(JArr(<<JStr(sAliceSmith)>>), JAbsent, JAbsent, JStr(sCafe), JNull,
            JArr(<<JStr(sJob)>>), JNull, JNull),
      Reply(JArr(<<JStr(s_alice)>>), JAbsent, JStr(sInPerson), JStr(sCafe), JNull,
            JArr(<<JStr(sJob)>>), JNull, JNull),
      Reply(JArr(<<JStr(s_alice), JStr(sBob)>>), JAbsent, JStr(sText), JStr(sHome),
            JStr(sPark), JArr(<<JStr(sJob), JStr(sTrip)>>), JStr(sNote), JStr(sDate)),
      Reply(JArr(<<JStr(sBob)>>), JAbsent, JStr(sInPerson), JAbsent, JNull,
            JArr(<<JStr(sJob)>>), JNull, JNull),
      Reply(JAbsent, JStr(sBob), JStr(sPhoneCall), JStr(sBlank), JNull,
            JArr(<<JStr(sJob)>>), JNull, JNull),
      Reply(JArr(<<JStr(sAliceSmith)>>), JAbsent, JStr(sInPerson), JStr(sCafe), JNull,
            JArr(<<JStr(sEmpty), JNum>>), JNull, JNull),
      Reply(JArr(<<>>), JStr(sBob), JAbsent, JStr(sCafe), JNull,
            JArr(<<JStr(sJob)>>), JNull, JNull),
      Reply(JArr(<<JStr(sBob)>>), JAbsent, JAbsent, JStr(sCafe), JNull,
            JArr(<<>>), JNull, JNull),
      Reply(JArr(<<JStr(sBob), JStr(sBob)>>), JAbsent, JStr(sZoom), JStr(sCafe),
            JStr(sPark), JArr(<<JStr(sJob)>>), JNull, JNull),
      Reply(JArr(<<JStr(sSam)>>), JAbsent, JStr(sInPerson), JStr(sCafe),
            JStr(sPark), JArr(<<JStr(sJob)>>), JNull, JNull),
      Reply(JArr(<<JStr(sBlank), JStr(sPadBob)>>), JAbsent, JStr(sText), JStr(sCafe),
            JNull, JArr(<<JStr(sJob)>>), JNull, JNull),
      Malformed }

\* the contacts added to the network before a session: (name, nickname)
SessionContacts ==
    { <<sAliceSmith, None>>, <<sAliceJones, None>>, <<sBob, Some(sAli)>> }

\* the replies the parser is tried on: every combination of these values
\* of the keys, and the two replies that are no JSON object
ParseReplies ==
    { Reply(pn, legacy, medium, location, opt[1], topics, opt[2], opt[3]) :
        pn \in {JAbsent, JNull, JStr(sBob), JArr(<<>>), JArr(<<JStr(sEmpty)>>),
                JArr(<<JStr(sBob)>>), JArr(<<JStr(sEmpty), JStr(sBob), JNum, JStr(sAlice)>>)},
        legacy \in {JAbsent, JNum, JStr(sEmpty), JStr(sAlice)},
        medium \in {JAbsent, JNum, JStr(sText), JStr(sZoom)},
        location \in {JAbsent, JNull, JStr(sCafe)},
        topics \in {JAbsent, JNull, JArr(<<>>), JArr(<<JNum>>), JArr(<<JStr(sEmpty)>>),
                    JArr(<<JStr(sJob), JNum, JStr(sTrip)>>)},
        opt \in {<<JAbsent, JAbsent, JAbsent>>, <<JNull, JNull, JNull>>,
                 <<JStr(sPark), JStr(sNote), JStr(sDate)>>} }
    \cup {Malformed, NonObject}

\* the contacts and the queries the lookup is tried on
ResolveContacts ==
    { <<sAliceSmith, None>>, <<sAliceJones, None>>, <<s_alice, None>>,
      <<sBob, Some(sAli)>>, <<sEmile, None>>, <<sEmileZ, None>> }

Queries == {s_alice, sAliceSmith, sAli, sPadBob, s_emile, sZoom, sBlank}

\* the lines typed at the prompts; None is end-of-input
ChoiceInputs == {Some(str_s), Some(str_S), Some(str_save), Some(str_e), Some(str_edit),
                 Some(str_d), Some(str_Discard), Some(str_x), Some(sEmpty), None}

FieldInputs == {Some(str_1), Some(str_2), Some(str_3), Some(str_4), Some(str_5),
                Some(str_6), Some(str_7), Some(str_9), Some(sEmpty), None}

ValueInputs(field) ==
    {None, Some(sEmpty)} \cup
    (IF field = str_1 THEN {Some(sAliceSmith), Some(inPeopleAliceBob), Some(inCommas)}
     ELSE IF field = str_2 THEN {Some(str_1), Some(str_2), Some(str_3), Some(str_4),
                                 Some(str_5), Some(str_9)}
     ELSE IF field = str_3 THEN {Some(sPadPark), Some(sCafe)}
     ELSE IF field = str_4 THEN {Some(sHome)}
     ELSE IF field = str_5 THEN {Some(inTopics), Some(inCommas)}
     ELSE IF field = str_6 THEN {Some(sNote)}
     ELSE {Some(sDate), Some(sBadDate)})

AnswerInputs == {Some(str_y), Some(str_Yes), Some(str_n), Some(sEmpty), None}

\* CLIContext::prompt: the line trimmed, None on end-of-input
prompt(line) == IF line = None THEN None ELSE Some(trim(line[1]))

\* Option<String>::unwrap_or_default
unwrap_or_default(opt) == IF opt = None THEN <<>> ELSE opt[1]

\* -------------------------------------------------------------- state
VARIABLES
    pc,             \* where the session is: the prompt it waits at
    original_text,  \* the text given to ai-log
    llm_reply,      \* message.content of the model's reply
    parse_result,   \* what parse_interaction returned
    ai_original,    \* review_and_save: the parser's output, kept
    current,        \* review_and_save: the record under review
    edit_sel,       \* edit_field: the field number entered
    steps,          \* review-loop iterations taken so far
    invalids,       \* how many of them were invalid choices
    people,         \* table people, index = id
    relationships,  \* ids of the people that have a relationship row
    interactions,   \* table interactions, in insertion order
    corrections,    \* table ai_corrections, in insertion order
    start,          \* the three stores as the session found them
    name_idx,       \* save_interaction: index of the name being resolved
    resolved,       \* save_interaction: resolved_people so far (ids)
    res_log,        \* the resolution result of each name handled so far
    outcome,        \* how the session ended
    eof_create,     \* a create-contact question was met by end-of-input
    partial_line,   \* the line read at "Save interaction for", if it was asked
    line_read,      \* what the last prompt of the review loop, or the last
                    \* create-contact question, returned
    commit_log,     \* save_interaction: the outcome printed for each person
    http_log,       \* the requests sent to the model backend, in order
    corr_meta,      \* table ai_corrections: owner_id and created_at of each row
    clock,          \* datetime('now'), in seconds
    recent_rows,    \* ai_log: the rows correction_repo::recent returned
    op_result,      \* what the last operation on the store returned
    labels,         \* table relationship_labels of the owner, index = id
    audio_in,       \* the recording given to resample
    audio_out       \* what resample returned

vars == <<pc, original_text, llm_reply, parse_result, ai_original, current,
          edit_sel, steps, invalids, people, relationships, interactions,
          corrections, start, name_idx, resolved, res_log, outcome, eof_create,
          partial_line, line_read, commit_log, http_log, corr_meta, clock,
          recent_rows, op_result, labels, audio_in, audio_out>>

stores == <<people, relationships, interactions, corrections>>
parse_vars == <<llm_reply, parse_result, ai_original, current>>
review_vars == <<edit_sel, steps, invalids>>
save_vars == <<name_idx, resolved, res_log, eof_create, partial_line>>
corr_vars == <<corr_meta, clock, recent_rows>>
ops_vars == <<op_result, labels>>
audio_vars == <<audio_in, audio_out>>

Stores == [people |-> people, relationships |-> relationships,
           interactions |-> interactions, corrections |-> corrections]

\* a call of an operation on the store: its name, the id and the text it
\* was given, and what it returned, Ok or the error
OpResult(op, target, arg, ok, err) ==
    [op |-> op, target |-> target, arg |-> arg, ok |-> ok, err |-> err]

\* init_new_network: the user's own record, with its relationship
InitNetwork ==
    /\ pc = "idle"
    /\ original_text = <<>>
    /\ llm_reply = NonObject
    /\ parse_result = ParseErr("")
    /\ ai_original = NoParsed
    /\ current = NoParsed
    /\ edit_sel = <<>>
    /\ steps = 0
    /\ invalids = 0
    /\ people = <<Person(sSam, None, TRUE)>>
    /\ relationships = {1}
    /\ interactions = <<>>
    /\ corrections = <<>>
    /\ start = [people |-> <<Person(sSam, None, TRUE)>>, relationships |-> {1},
                interactions |-> <<>>, corrections |-> <<>>]
    /\ name_idx = 0
    /\ resolved = <<>>
    /\ res_log = <<>>
    /\ outcome = ""
    /\ eof_create = FALSE
    /\ partial_line = <<>>
    /\ line_read = None
    /\ commit_log = <<>>
    /\ http_log = <<>>
    /\ corr_meta = <<>>
    /\ clock = 0
    /\ recent_rows = <<>>
    /\ op_result = OpResult("", 0, <<>>, TRUE, "")
    /\ labels = [i \in 1..Len(DefaultLabelNames) |-> Label(DefaultLabelNames[i])]

\* no recording is decoded
Init ==
    /\ InitNetwork
    /\ audio_in = NoRecording
    /\ audio_out = <<>>

\* load_wav_as_f32_mono_16k up to the call of resample: a recording is read
InitResample ==
    /\ InitNetwork
    /\ audio_in \in Recordings
    /\ audio_out = <<>>

Finish(how) == pc' = "done" /\ outcome' = how

LogEntry(name, r, created) ==
    [name |-> name, tag |-> r.tag, person |-> r.person, cands |-> r.cands,
     created |-> created]

\* person_commands add -> add_person, before the session
AddPersonFrom(contacts) ==
    /\ pc = "idle"
    /\ Len(people) - 1 < MaxPeople
    /\ \E c \in contacts :
        LET r == add_person(people, relationships, c[1], c[2])
        IN /\ r.ok
           /\ people' = r.people
           /\ relationships' = r.relationships
    /\ UNCHANGED <<pc, original_text, parse_vars, review_vars, interactions,
                   corrections, start, save_vars, outcome, line_read, commit_log,
                   http_log>>
    /\ UNCHANGED corr_vars
    /\ UNCHANGED <<ops_vars, audio_vars>>

AddPerson == AddPersonFrom(SessionContacts)

AddContact == AddPersonFrom(ResolveContacts)

\* person_commands archive -> archive_person, before the lookup
ArchivePerson ==
    /\ pc = "idle"
    /\ \E id \in 1..Len(people) :
        LET r == archive_person(people, id)
        IN /\ r.ok
           /\ ~people[id].archived
           /\ people' = r.people
    /\ UNCHANGED <<pc, original_text, parse_vars, review_vars, relationships,
                   interactions, corrections, start, save_vars, outcome, line_read,
                   commit_log, http_log>>
    /\ UNCHANGED corr_vars
    /\ UNCHANGED <<ops_vars, audio_vars>>

\* resolve_person's lookup of one name, up to its result
ResolveQuery ==
    /\ pc = "idle"
    /\ \E q \in Queries : \E r \in resolve_person(people, q) :
        res_log' = <<LogEntry(q, r, FALSE)>>
    /\ Finish("resolved")
    /\ UNCHANGED <<original_text, parse_vars, review_vars, stores, start, name_idx,
                   resolved, eof_create, partial_line, line_read, commit_log, http_log>>
    /\ UNCHANGED corr_vars
    /\ UNCHANGED <<ops_vars, audio_vars>>

\* CLIContext::find_person for one command argument
FindPerson ==
    /\ pc = "idle"
    /\ \E q \in Queries : \E r \in find_person(people, q) :
        res_log' = <<LogEntry(trim(q), r, FALSE)>>
    /\ Finish("found")
    /\ UNCHANGED <<original_text, parse_vars, review_vars, stores, start, name_idx,
                   resolved, eof_create, partial_line, line_read, commit_log, http_log>>
    /\ UNCHANGED corr_vars
    /\ UNCHANGED <<ops_vars, audio_vars>>

\* ----------------------------------------------- db/correction_repo.rs
\* ctx.owner_id(), and the owner of another network in the same database
Owner == 1
OtherOwner == 2

\* ai_log, line 30: the limit given to correction_repo::recent
RecentLimit == 5

\* correction_repo::insert: the row's owner_id and created_at
correction_stamp(meta, owner, now) ==
    Append(meta, [owner_id |-> owner, created_at |-> now])

\* ORDER BY created_at DESC LIMIT limit over the rows of a set: the first
\* row is one of greatest created_at; rows of equal created_at come in an
\* order SQL leaves open
RECURSIVE recent_orders(_, _, _)
recent_orders(meta, rows, limit) ==
    IF rows = {} \/ limit = 0 THEN {<<>>}
    ELSE LET newest == {r \in rows :
                          \A q \in rows : meta[q].created_at <= meta[r].created_at}
         IN UNION {{<<r>> \o t : t \in recent_orders(meta, rows \ {r}, limit - 1)} :
                   r \in newest}

\* correction_repo::recent: the rows (by their position in the table) the
\* query can return for an owner
recent(meta, owner, limit) ==
    recent_orders(meta, {i \in 1..Len(meta) : meta[i].owner_id = owner}, limit)

\* parse_interaction, lines 63-78: the examples of the corrections block,
\* numbered from 1 in the order recent returned them
corrections_block(corr, rows) ==
    [i \in 1..Len(rows) |->
        [example |-> i,
         input |-> corr[rows[i]].original_text,
         parsed |-> corr[rows[i]].ai_output,
         corrected |-> corr[rows[i]].user_output]]

\* check_ollama's request and parse_interaction's request
GetRoot == "GET /"
PostChat == "POST /api/chat"

\* the ways parse_interaction's request fails before parse_llm_json runs:
\* a transport timeout, another transport error, an HTTP status, a body
\* that is no JSON, a body without message.content
RequestFailures == {"timeout", "transport", "http_status", "bad_response", "no_content"}

\* the parse request is sent whatever the reachability check returned
backend_requests_unguarded(args, check_ok) ==
    IF args = <<>> THEN <<>> ELSE <<GetRoot, PostChat>>

\* ai_log, lines 11-41 (voice_log, lines 22-69): the requests one
\* invocation sends to the backend
backend_requests(args, check_ok) ==
    IF args = <<>> THEN <<>>
    ELSE IF ~check_ok THEN <<GetRoot>>
    ELSE <<GetRoot, PostChat>>

\* ai_log: usage, reachability check, parse request, parse_llm_json, and
\* on success the first display of review_and_save
AiLogWith(replies) ==
    /\ pc = "idle"
    /\ start' = Stores
    /\ \E args \in {sEmpty, sCoffee}, check_ok \in BOOLEAN :
        /\ original_text' = args
        /\ http_log' = backend_requests(args, check_ok)
        /\ IF args = <<>>
           THEN Finish("usage") /\ UNCHANGED <<parse_vars, recent_rows>>
           ELSE IF ~check_ok
           THEN Finish("unreachable") /\ UNCHANGED <<parse_vars, recent_rows>>
           ELSE /\ recent_rows' \in recent(corr_meta, Owner, RecentLimit)
                /\ \/ /\ \E how \in RequestFailures : Finish(how)
                      /\ UNCHANGED parse_vars
                   \/ \E content \in replies :
                         LET r == parse_llm_json(content)
                         IN /\ llm_reply' = content
                            /\ parse_result' = r
                            /\ ai_original' = r.value
                            /\ current' = r.value
                            /\ IF r.ok THEN pc' = "review" /\ outcome' = outcome
                               ELSE Finish("parse_error")
    /\ UNCHANGED <<review_vars, stores, save_vars, line_read, commit_log, corr_meta,
                   clock>>
    /\ UNCHANGED <<ops_vars, audio_vars>>

AiLog == AiLogWith(SessionReplies)

\* what whisper_service::transcribe returns: an error, or the text
TranscribeErr == [ok |-> FALSE, text |-> <<>>]
Transcript(text) == [ok |-> TRUE, text |-> text]

\* the replies of the sessions that start from a recording
VoiceReplies ==
    { Reply(JArr(<<JStr(sAliceSmith)>>), JAbsent, JAbsent, JStr(sCafe), JNull,
            JArr(<<JStr(sJob)>>), JNull, JNull),
      Reply(JArr(<<JStr(sBob)>>), JAbsent, JAbsent, JStr(sCafe), JNull,
            JArr(<<>>), JNull, JNull) }

\* voice_log, lines 10-69: the requests one invocation sends to the backend
voice_requests(args, exists, check_ok, transcript) ==
    IF args = <<>> \/ ~exists THEN <<>>
    ELSE IF ~check_ok \/ ~transcript.ok \/ transcript.text = <<>> THEN <<GetRoot>>
    ELSE <<GetRoot, PostChat>>

\* voice_log: usage, the file, reachability check, transcription, the
\* transcript prompt, parse request, parse_llm_json, and on success the
\* first display of review_and_save
VoiceLog ==
    /\ pc = "idle"
    /\ start' = Stores
    /\ \E args \in {sEmpty, sWav}, exists \in BOOLEAN, check_ok \in BOOLEAN,
          transcript \in {TranscribeErr, Transcript(sEmpty), Transcript(sCoffee)},
          line \in {None, Some(sBlank), Some(sTea)} :
        LET edited == prompt(line)
            text == IF edited # None /\ trim(edited[1]) # <<>>
                    THEN edited[1] ELSE transcript.text
            sent == voice_requests(args, exists, check_ok, transcript)
        IN /\ http_log' = sent
           /\ IF sent # <<GetRoot, PostChat>>
              THEN /\ Finish(IF args = <<>> THEN "usage"
                             ELSE IF ~exists THEN "file_not_found"
                             ELSE IF ~check_ok THEN "unreachable"
                             ELSE IF ~transcript.ok THEN "transcribe_error"
                             ELSE "no_speech")
                   /\ UNCHANGED <<original_text, parse_vars, recent_rows>>
              ELSE /\ original_text' = text
                   /\ recent_rows' \in recent(corr_meta, Owner, RecentLimit)
                   /\ \/ /\ \E how \in RequestFailures : Finish(how)
                         /\ UNCHANGED parse_vars
                      \/ \E content \in VoiceReplies :
                            LET r == parse_llm_json(content)
                            IN /\ llm_reply' = content
                               /\ parse_result' = r
                               /\ ai_original' = r.value
                               /\ current' = r.value
                               /\ IF r.ok THEN pc' = "review" /\ outcome' = outcome
                                  ELSE Finish("parse_error")
    /\ UNCHANGED <<review_vars, stores, save_vars, line_read, commit_log, corr_meta,
                   clock>>
    /\ UNCHANGED <<ops_vars, audio_vars>>

AiLogParse == AiLogWith(ParseReplies)

\* a choice that is none of the six words ends the session like a discard
review_decision_unknown_discards(choice) ==
    IF choice \in {str_s, str_save} THEN "Save"
    ELSE IF choice \in {str_e, str_edit} THEN "EditField"
    ELSE "Discard"

\* review_and_save, lines 61-75: the arm a lower-cased choice selects
review_decision(choice) ==
    IF choice \in {str_s, str_save} THEN "Save"
    ELSE IF choice \in {str_e, str_edit} THEN "EditField"
    ELSE IF choice \in {str_d, str_discard} THEN "Discard"
    ELSE "Invalid"

\* the save arm goes to save_interaction without recording the correction
corrections_after_not_recorded(decision, corr, original, ai_orig, user_final) == corr

\* the discard arm records the correction too
corrections_after_discard_records(decision, corr, original, ai_orig, user_final) ==
    IF decision \in {"Save", "Discard"}
    THEN Append(corr, [original_text |-> original,
                       ai_output |-> serde_to_string(ai_orig),
                       user_output |-> serde_to_string(user_final)])
    ELSE corr

\* review_and_save, lines 61-75: only the save arm calls
\* maybe_save_correction; the corrections table after the arm has run
corrections_after(decision, corr, original, ai_orig, user_final) ==
    IF decision = "Save"
    THEN maybe_save_correction(corr, original, ai_orig, user_final)
    ELSE corr

\* the partial-save confirmation is never asked
partial_needs_confirm_never(res, names) == FALSE

\* save_interaction, line 286: fewer people resolved than names requested
partial_needs_confirm(res, names) == Len(res) < Len(names)

\* save_interaction after the names from index i on remain to be resolved:
\* go on with the next name, or conclude (lines 281-336)
Continue(i, res, ppl, rels) ==
    IF i <= Len(current.person_names)
    THEN /\ pc' = "resolving"
         /\ name_idx' = i
         /\ interactions' = interactions
         /\ relationships' = rels
         /\ commit_log' = commit_log
         /\ outcome' = outcome
    ELSE /\ name_idx' = i
         /\ IF res = <<>>
            THEN /\ Finish("no_people")
                 /\ interactions' = interactions
                 /\ relationships' = rels
                 /\ commit_log' = commit_log
            ELSE IF partial_needs_confirm(res, current.person_names)
            THEN /\ pc' = "ask_partial"
                 /\ outcome' = outcome
                 /\ interactions' = interactions
                 /\ relationships' = rels
                 /\ commit_log' = commit_log
            ELSE \E faults \in [1..Len(res) -> Faults] :
                 LET c == commit_all(ppl, res, current, interactions, rels, faults, <<>>)
                 IN /\ Finish("saved")
                    /\ interactions' = c.interactions
                    /\ relationships' = c.relationships
                    /\ commit_log' = c.log

\* review_and_save: one reading of "Choice: "
ReviewChoice ==
    /\ pc = "review"
    /\ \E line \in ChoiceInputs :
        LET got == prompt(line)
            decision == review_decision(to_lowercase(unwrap_or_default(got)))
        IN IF got = None
           THEN /\ Finish("eof_review")
                /\ line_read' = None
                /\ UNCHANGED <<review_vars, stores, save_vars, commit_log>>
           ELSE /\ line_read' = Some(to_lowercase(got[1]))
                /\ corrections' = corrections_after(decision, corrections, original_text,
                                                    ai_original, current)
                /\ UNCHANGED <<people, resolved, res_log, eof_create, partial_line>>
                /\ IF decision = "Save"
                   THEN /\ IF current.location = <<>>
                           THEN /\ Finish("location_required")
                                /\ UNCHANGED <<interactions, relationships, name_idx,
                                               commit_log>>
                           ELSE Continue(1, <<>>, people, relationships)
                        /\ UNCHANGED review_vars
                   ELSE IF decision = "EditField"
                   THEN /\ steps < MaxSteps
                        /\ pc' = "edit_field"
                        /\ UNCHANGED <<review_vars, interactions, relationships,
                                       name_idx, outcome, commit_log>>
                   ELSE IF decision = "Discard"
                   THEN /\ Finish("discarded")
                        /\ UNCHANGED <<review_vars, interactions, relationships, name_idx,
                                       commit_log>>
                   ELSE /\ steps < MaxSteps
                        /\ steps' = steps + 1
                        /\ invalids' = invalids + 1
                        /\ UNCHANGED <<pc, edit_sel, interactions, relationships,
                                       name_idx, outcome, commit_log>>
    /\ corr_meta' = IF corrections' # corrections
                    THEN correction_stamp(corr_meta, Owner, clock) ELSE corr_meta
    /\ UNCHANGED <<original_text, parse_vars, start, http_log, clock, recent_rows>>
    /\ UNCHANGED <<ops_vars, audio_vars>>

\* edit_field: the reading of "Field (1-7): "
EditFieldSelect ==
    /\ pc = "edit_field"
    /\ \E line \in FieldInputs :
        LET got == prompt(line)
        IN /\ line_read' = got
           /\ IF got # None /\ field_prompts_value(current, got[1])
              THEN /\ pc' = "edit_value"
                   /\ edit_sel' = got[1]
                   /\ steps' = steps
              ELSE /\ pc' = "review"
                   /\ edit_sel' = <<>>
                   /\ steps' = steps + 1
    /\ UNCHANGED <<original_text, parse_vars, invalids, stores, start, save_vars, outcome,
                   commit_log, http_log>>
    /\ UNCHANGED corr_vars
    /\ UNCHANGED <<ops_vars, audio_vars>>

\* edit_field: the reading of the field's new value
EditValue ==
    /\ pc = "edit_value"
    /\ \E line \in ValueInputs(edit_sel) :
        /\ line_read' = prompt(line)
        /\ current' = edit_field(current, edit_sel, unwrap_or_default(prompt(line)))
    /\ pc' = "review"
    /\ edit_sel' = <<>>
    /\ steps' = steps + 1
    /\ UNCHANGED <<original_text, llm_reply, parse_result, ai_original, invalids,
                   stores, start, save_vars, outcome, commit_log, http_log>>
    /\ UNCHANGED corr_vars
    /\ UNCHANGED <<ops_vars, audio_vars>>

\* save_interaction: resolve_person for the next name, up to its prompt
ResolveName ==
    /\ pc = "resolving"
    /\ LET name == current.person_names[name_idx]
       IN \E r \in resolve_person(people, name) :
            IF r.tag = "NotFound"
            THEN /\ pc' = "ask_create"
                 /\ UNCHANGED <<name_idx, resolved, res_log, interactions,
                                relationships, outcome, commit_log>>
            ELSE LET res == IF r.tag = "Resolved" THEN Append(resolved, r.person)
                            ELSE resolved
                 IN /\ resolved' = res
                    /\ res_log' = Append(res_log, LogEntry(name, r, FALSE))
                    /\ Continue(name_idx + 1, res, people, relationships)
    /\ UNCHANGED <<original_text, parse_vars, review_vars, people, corrections,
                   start, eof_create, partial_line, line_read, http_log>>
    /\ UNCHANGED corr_vars
    /\ UNCHANGED <<ops_vars, audio_vars>>

IsYes(line) ==
    to_lowercase(unwrap_or_default(prompt(line))) \in {str_y, str_yes}

\* resolve_person, lines 366-386: the answer to "Would you like to add"
CreateAnswer ==
    /\ pc = "ask_create"
    /\ \E line \in AnswerInputs :
        LET name == current.person_names[name_idx]
            added == add_person(people, relationships, name, None)
            made == IsYes(line) /\ added.ok
            res == IF made THEN Append(resolved, added.id) ELSE resolved
            ppl == IF made THEN added.people ELSE people
            rels == IF made THEN added.relationships ELSE relationships
        IN /\ people' = ppl
           /\ resolved' = res
           /\ res_log' = Append(res_log,
                  LogEntry(name, Resolution("NotFound", IF made THEN added.id ELSE 0, {}), made))
           /\ eof_create' = (eof_create \/ line = None)
           /\ line_read' = prompt(line)
           /\ Continue(name_idx + 1, res, ppl, rels)
    /\ UNCHANGED <<original_text, parse_vars, review_vars, corrections, start,
                   partial_line, http_log>>
    /\ UNCHANGED corr_vars
    /\ UNCHANGED <<ops_vars, audio_vars>>

\* save_interaction, lines 286-296: the answer to "Save interaction for"
PartialAnswer ==
    /\ pc = "ask_partial"
    /\ \E line \in AnswerInputs :
        /\ partial_line' = <<line>>
        /\ IF IsYes(line)
           THEN \E faults \in [1..Len(resolved) -> Faults] :
                LET c == commit_all(people, resolved, current, interactions,
                                    relationships, faults, <<>>)
                IN /\ Finish("saved")
                   /\ interactions' = c.interactions
                   /\ relationships' = c.relationships
                   /\ commit_log' = c.log
           ELSE /\ Finish(IF line = None THEN "eof_partial" ELSE "partial_declined")
                /\ UNCHANGED <<interactions, relationships, commit_log>>
    /\ UNCHANGED <<original_text, parse_vars, review_vars, people, corrections,
                   start, name_idx, resolved, res_log, eof_create, line_read, http_log>>
    /\ UNCHANGED corr_vars
    /\ UNCHANGED <<ops_vars, audio_vars>>

Next ==
    \/ AddPerson
    \/ AiLog
    \/ VoiceLog
    \/ ReviewChoice
    \/ EditFieldSelect
    \/ EditValue
    \/ ResolveName
    \/ CreateAnswer
    \/ PartialAnswer

Spec == Init /\ [][Next]_vars

\* the text of the n-th session that saved a correction: "coffee1", ...
PastText(n) == Append(sCoffee, 48 + n)

\* what the model returned in such a session, and what the user saved
PastAi ==
    [NoParsed EXCEPT !.person_names = <<sBob>>, !.medium = sInPerson,
                     !.topics = <<sJob>>]

PastUser == [PastAi EXCEPT !.location = sCafe]

\* maybe_save_correction of an earlier session, of this owner or of
\* another: correction_repo::insert
InsertCorrection ==
    /\ pc = "idle"
    /\ Len(corrections) < MaxCorrections
    /\ \E owner \in {Owner, OtherOwner} :
        /\ corrections' = maybe_save_correction(corrections,
                               PastText(Len(corrections) + 1), PastAi, PastUser)
        /\ corr_meta' = correction_stamp(corr_meta, owner, clock)
    /\ UNCHANGED <<pc, original_text, parse_vars, review_vars, people, relationships,
                   interactions, start, save_vars, outcome, line_read, commit_log,
                   http_log, clock, recent_rows>>
    /\ UNCHANGED <<ops_vars, audio_vars>>

\* a second passes
Tick ==
    /\ pc = "idle"
    /\ clock < MaxClock
    /\ clock' = clock + 1
    /\ UNCHANGED <<pc, original_text, parse_vars, review_vars, stores, start,
                   save_vars, outcome, line_read, commit_log, http_log, corr_meta,
                   recent_rows>>
    /\ UNCHANGED <<ops_vars, audio_vars>>

\* the session that follows; what the model replies does not matter here
AiLogAfterCorrections == AiLogWith({Malformed})

\* the corrections of earlier sessions, then the prompt of the next one
NextCorrections ==
    \/ InsertCorrection
    \/ Tick
    \/ AiLogAfterCorrections

SpecCorrections == Init /\ [][NextCorrections]_vars

\* the names typed for a label
LabelNames == {sFriend, sPadWork, s_work, sEcole, s_ecole, sBlank}

\* the labels the commands below are given: "friend", the labels added,
\* and an id of no label
LabelTargets == {2} \cup ((Len(DefaultLabelNames) + 1)..(Len(labels) + 1))

LabelStep(op, target, arg, r) ==
    /\ labels' = r.labels
    /\ op_result' = OpResult(op, target, arg, r.ok, r.err)
    /\ UNCHANGED <<pc, original_text, parse_vars, review_vars, stores, start,
                   save_vars, outcome, line_read, commit_log, http_log, corr_vars,
                   audio_vars>>

\* label_commands add -> add_label
AddLabel ==
    /\ pc = "idle"
    /\ Len(labels) < Len(DefaultLabelNames) + MaxLabels
    /\ \E name \in LabelNames : LabelStep("add_label", 0, name, add_label(labels, name))

\* label_commands edit -> update_label
UpdateLabel ==
    /\ pc = "idle"
    /\ \E id \in LabelTargets, name \in {None} \cup {Some(n) : n \in LabelNames \cup {s_friend}} :
        LabelStep("update_label", id, name, update_label(labels, id, name))

\* label_commands archive -> archive_label
ArchiveLabel ==
    /\ pc = "idle"
    /\ \E id \in LabelTargets :
        LabelStep("archive_label", id, <<>>, archive_label(labels, id))

\* label_commands unarchive -> unarchive_label
UnarchiveLabel ==
    /\ pc = "idle"
    /\ \E id \in LabelTargets :
        LabelStep("unarchive_label", id, <<>>, unarchive_label(labels, id))

NextLabels ==
    \/ AddLabel
    \/ UpdateLabel
    \/ ArchiveLabel
    \/ UnarchiveLabel

SpecLabels == Init /\ [][NextLabels]_vars

\* person_commands archive -> archive_person, for any person id (one past
\* the table is an id of nobody)
ArchiveCall ==
    /\ pc = "idle"
    /\ \E id \in 1..(Len(people) + 1) :
        LET r == archive_person(people, id)
        IN /\ people' = r.people
           /\ op_result' = OpResult("archive_person", id, <<>>, r.ok, r.err)
    /\ UNCHANGED <<pc, original_text, parse_vars, review_vars, relationships,
                   interactions, corrections, start, save_vars, outcome, line_read,
                   commit_log, http_log, corr_vars, labels, audio_vars>>

\* person_commands unarchive -> unarchive_person
UnarchiveCall ==
    /\ pc = "idle"
    /\ \E id \in 1..(Len(people) + 1) :
        LET r == unarchive_person(people, id)
        IN /\ people' = r.people
           /\ op_result' = OpResult("unarchive_person", id, <<>>, r.ok, r.err)
    /\ UNCHANGED <<pc, original_text, parse_vars, review_vars, relationships,
                   interactions, corrections, start, save_vars, outcome, line_read,
                   commit_log, http_log, corr_vars, labels, audio_vars>>

\* the operations on people, on networks of ResolveContacts
NextPeople ==
    \/ AddContact
    \/ ArchiveCall
    \/ UnarchiveCall

SpecPeople == Init /\ [][NextPeople]_vars

\* the topics given to a direct call of log_in_person / log_remote
LogTopics ==
    { <<>>, <<sBlank>>, <<sJob>>, <<sJob, sTrip>>, <<sJob, sJob>>,
      <<sJob, sTrip, sPadJob>> }

\* interaction_commands log -> log_in_person, for any person id (one past
\* the table is an id of nobody)
LogInPerson ==
    /\ pc = "idle"
    /\ Len(interactions) < MaxLogs
    /\ \E person_id \in 1..(Len(people) + 1), location \in {sCafe, sBlank},
          topics \in LogTopics, fault \in Faults :
        LET r == log_store(log_in_person(people, person_id, location, topics, None, Today),
                           person_id, relationships, interactions, fault)
        IN /\ op_result' = OpResult("log_in_person", person_id, location, r.ok, r.err)
           /\ relationships' = r.relationships
           /\ interactions' = r.interactions
    /\ UNCHANGED <<pc, original_text, parse_vars, review_vars, people, corrections,
                   start, save_vars, outcome, line_read, commit_log, http_log,
                   corr_vars, labels, audio_vars>>

\* interaction_commands log -> log_remote
LogRemote ==
    /\ pc = "idle"
    /\ Len(interactions) < MaxLogs
    /\ \E person_id \in 1..(Len(people) + 1), medium \in {sInPerson, sText},
          location \in {sCafe, sBlank}, their \in {None, Some(sPark)},
          topics \in LogTopics, fault \in Faults :
        LET r == log_store(log_remote(people, person_id, medium, location, their,
                                      topics, None, Today),
                           person_id, relationships, interactions, fault)
        IN /\ op_result' = OpResult("log_remote", person_id, location, r.ok, r.err)
           /\ relationships' = r.relationships
           /\ interactions' = r.interactions
    /\ UNCHANGED <<pc, original_text, parse_vars, review_vars, people, corrections,
                   start, save_vars, outcome, line_read, commit_log, http_log,
                   corr_vars, labels, audio_vars>>

\* the operations that log an interaction, on networks of SessionContacts
NextLog ==
    \/ AddPerson
    \/ LogInPerson
    \/ LogRemote

SpecLog == Init /\ [][NextLog]_vars

\* load_wav_as_f32_mono_16k, line 114: the call of resample
Resample ==
    /\ pc = "idle"
    /\ audio_in # NoRecording
    /\ audio_out' = resample(audio_in.samples, audio_in.from_rate, audio_in.to_rate)
    /\ Finish("resampled")
    /\ UNCHANGED <<original_text, parse_vars, review_vars, stores, start, save_vars,
                   line_read, commit_log, http_log, corr_vars, ops_vars, audio_in>>

NextResample == Resample

SpecResample == InitResample /\ [][NextResample]_vars

\* the parser alone, on the replies of ParseReplies
NextParse == AiLogParse

SpecParse == Init /\ [][NextParse]_vars

\* the lookup alone, on networks built from ResolveContacts
NextResolve ==
    \/ AddContact
    \/ ArchivePerson
    \/ ResolveQuery
    \/ FindPerson

SpecResolve == Init /\ [][NextResolve]_vars

\* ------------------------------------------------------------ properties
\* the interactions the session has added to the store
NewInteractions ==
    SubSeq(interactions, Len(start.interactions) + 1, Len(interactions))

\* the people the interactions of the session were logged for
CommittedPeople == {NewInteractions[i].person : i \in 1..Len(NewInteractions)}

\* Save was chosen at the review prompt
SaveChosen ==
    \/ pc \in {"resolving", "ask_create", "ask_partial"}
    \/ pc = "done" /\ outcome \in {"location_required", "no_people", "saved",
                                   "partial_declined", "eof_partial"}

\* the session ended by an explicit discard, or by end-of-input at the
\* review prompt, at the partial-save confirmation, or at a create-contact
\* question after which nobody was left to save for
Cancelled ==
    /\ pc = "done"
    /\ \/ outcome \in {"discarded", "eof_review", "eof_partial"}
       \/ outcome = "no_people" /\ eof_create

\* C1: whenever a session is cancelled by explicit discard or by
\* end-of-input at one of its prompts, the CorrectionStore and the
\* Relationship Store are exactly as they were when the session began.
C1_CancelLeavesNoTrace == Cancelled => Stores = start

\* C2: choosing Discard at the review prompt, after any sequence of field
\* edits and invalid choices, ends the session with no CorrectionExample
\* written and no person or interaction added to the Relationship Store.
C2_DiscardPersistsNothing ==
    (pc = "done" /\ outcome = "discarded") => Stores = start

C2_Witness ==
    /\ pc = "done" /\ outcome = "discarded"
    /\ invalids >= 1
    /\ current # ai_original

ConfirmedPartial ==
    /\ partial_line # <<>>
    /\ partial_line[1] # None
    /\ to_lowercase(trim(partial_line[1][1])) \in {str_y, str_yes}

\* C4: if fewer people resolved than names were requested, no interaction
\* is committed unless the user answers yes to the partial-save
\* confirmation; any other answer or end-of-input commits nothing, and if
\* no name resolved nothing is committed at all.
C4_NoSilentPartialCommit ==
    /\ (NewInteractions # <<>> /\ Len(resolved) < Len(current.person_names))
            => ConfirmedPartial
    /\ (partial_line # <<>> /\ ~ConfirmedPartial) => NewInteractions = <<>>
    /\ resolved = <<>> => NewInteractions = <<>>

C4_Witness ==
    /\ pc = "done"
    /\ Len(resolved) < Len(current.person_names)
    /\ ConfirmedPartial
    /\ NewInteractions # <<>>

\* C5: every interaction a session commits comes from a ParsedInteraction
\* whose person_names and topics are non-empty and whose location is
\* non-blank; one with an empty location or with no usable topic never
\* produces a stored interaction.
C5_CommitNeedsPeopleTopicsLocation ==
    NewInteractions # <<>> =>
        /\ current.person_names # <<>>
        /\ current.topics # <<>>
        /\ \E i \in 1..Len(current.topics) : trim(current.topics[i]) # <<>>
        /\ trim(current.location) # <<>>
        /\ \A i \in 1..Len(NewInteractions) :
              /\ NewInteractions[i].my_location # <<>>
              /\ NewInteractions[i].topics # <<>>

C5_Witness ==
    /\ pc = "done" /\ outcome = "saved"
    /\ Len(NewInteractions) = 2
    /\ ai_original.location = <<>>

\* the matches of a logged resolution whose full name is the queried name,
\* ignoring ASCII case
ExactOf(e) == {i \in e.cands : eq_ignore_ascii_case(people[i].name, e.name)}

\* C7: whenever a queried name matches two or more candidates and does not
\* single out exactly one of them (several matching contacts carrying the
\* queried full name included), the result is not Resolved to any one of
\* them and no interaction is committed for any of them.
C7_NeverGuesses ==
    \A k \in 1..Len(res_log) :
        LET e == res_log[k]
        IN (Cardinality(e.cands) >= 2 /\ Cardinality(ExactOf(e)) # 1)
              => /\ e.tag # "Resolved"
                 /\ e.cands \cap CommittedPeople = {}

\* name n singles out the contact p of the network ppl: p is its only
\* match, or p matches and carries n as its full name
SinglesOut(ppl, n, p) ==
    /\ p \in person_matches(ppl, n)
    /\ \/ Cardinality(person_matches(ppl, n)) = 1
       \/ eq_ignore_ascii_case(ppl[p].name, n)

\* name n matches two or more contacts by substring only
AmbiguousOnly(ppl, n) ==
    /\ Cardinality(person_matches(ppl, n)) >= 2
    /\ \A p \in person_matches(ppl, n) : ~eq_ignore_ascii_case(ppl[p].name, n)

\* C8: a name that matches two contacts by substring only never selects
\* either: an existing contact receives an interaction only when some name
\* of the final person_names singles it out, so when every parsed name is
\* ambiguous a commit for a contact happens only after the people field was
\* edited.
C8_AmbiguousNeverAutoSelected ==
    /\ \A p \in CommittedPeople :
          p <= Len(start.people) =>
              \E i \in 1..Len(current.person_names) :
                  SinglesOut(start.people, current.person_names[i], p)
    /\ ( /\ ai_original.person_names # <<>>
         /\ \A i \in 1..Len(ai_original.person_names) :
                AmbiguousOnly(start.people, ai_original.person_names[i])
         /\ NewInteractions # <<>> )
       => current.person_names # ai_original.person_names

C8_Witness ==
    /\ ai_original.person_names = <<s_alice>>
    /\ AmbiguousOnly(start.people, s_alice)
    /\ current.person_names = <<sAliceSmith>>
    /\ Len(NewInteractions) = 1
    /\ people[NewInteractions[1].person].name = sAliceSmith

\* the active people whose name or nickname contains the query, both taken
\* case-insensitively
CaseInsensitiveMatches(q) ==
    {i \in 1..Len(people) :
        /\ ~people[i].archived
        /\ \/ contains(to_lowercase(people[i].name), to_lowercase(q))
           \/ /\ people[i].nickname # None
              /\ contains(to_lowercase(people[i].nickname[1]), to_lowercase(q))}

\* those of them whose full name equals the query case-insensitively
CaseInsensitiveExact(q) ==
    {i \in CaseInsensitiveMatches(q) : to_lowercase(people[i].name) = to_lowercase(q)}

\* C6: name resolution classifies by the set of active candidates whose
\* name or nickname contains the query case-insensitively: no match gives
\* NotFound, one match gives Resolved with it, several give Resolved with a
\* match whose full name equals the query case-insensitively if there is
\* one, otherwise Ambiguous with every match.
C6_ResolutionClasses ==
    \A k \in 1..Len(res_log) :
        LET e == res_log[k]
            M == CaseInsensitiveMatches(e.name)
            X == CaseInsensitiveExact(e.name)
        IN e.tag # "EmptyQuery" =>
            /\ M = {} => e.tag = "NotFound"
            /\ Cardinality(M) = 1 => (e.tag = "Resolved" /\ e.person \in M)
            /\ (Cardinality(M) >= 2 /\ X # {}) => (e.tag = "Resolved" /\ e.person \in X)
            /\ (Cardinality(M) >= 2 /\ X = {}) => (e.tag = "Ambiguous" /\ e.cands = M)

\* the parser was run on the reply
Parsed == parse_result.ok \/ parse_result.err # ""

\* the non-empty strings a reply offers as person names
NamesInArray(content) ==
    LET pn == json_get(content, "personNames")
    IN IF pn.t = "arr"
       THEN {pn.a[i].s : i \in {j \in 1..Len(pn.a) : pn.a[j].t = "str" /\ pn.a[j].s # <<>>}}
       ELSE {}

LegacyName(content) ==
    LET v == json_get(content, "personName")
    IN IF v.t = "str" /\ v.s # <<>> THEN {v.s} ELSE {}

\* the reply carries a topics array with a string in it
HasTopics(content) ==
    LET tp == json_get(content, "topics")
    IN tp.t = "arr" /\ \E i \in 1..Len(tp.a) : tp.a[i].t = "str"

\* C9: a reply that yields no person name fails with NoPeopleExtracted
\* whatever its other fields, a reply with people but an empty topics
\* sequence fails with NoTopicsExtracted, and every successful parse has
\* non-empty person_names and topics.
C9_MandatoryFields ==
    (Parsed /\ llm_reply.kind # "malformed") =>
        /\ (NamesInArray(llm_reply) = {} /\ LegacyName(llm_reply) = {})
              => (~parse_result.ok /\ parse_result.err = "NoPeopleExtracted")
        /\ ( /\ \/ NamesInArray(llm_reply) # {}
                \/ /\ json_get(llm_reply, "personNames").t # "arr"
                   /\ LegacyName(llm_reply) # {}
             /\ ~HasTopics(llm_reply) )
              => (~parse_result.ok /\ parse_result.err = "NoTopicsExtracted")
        /\ parse_result.ok =>
              /\ parse_result.value.person_names # <<>>
              /\ parse_result.value.topics # <<>>
              /\ pc = "review"
        /\ ~parse_result.ok => (pc = "done" /\ outcome = "parse_error")

C9_Witness ==
    /\ Parsed
    /\ parse_result.err = "NoPeopleExtracted"
    /\ json_get(llm_reply, "personNames") = JArr(<<JStr(sEmpty)>>)
    /\ json_get(llm_reply, "personName") = JNum
    /\ HasTopics(llm_reply)
    /\ json_get(llm_reply, "location") = JStr(sCafe)

\* C10: a reply that carries a non-empty legacy personName and no usable
\* name in personNames parses to person_names = [personName], and empty
\* strings are filtered out of the resulting sequence.
C10_LegacyFallback ==
    (Parsed /\ llm_reply.kind = "object") =>
        /\ (LegacyName(llm_reply) # {} /\ NamesInArray(llm_reply) = {} /\ HasTopics(llm_reply))
              => /\ parse_result.ok
                 /\ parse_result.value.person_names
                        = <<json_get(llm_reply, "personName").s>>
        /\ parse_result.ok =>
              \A i \in 1..Len(parse_result.value.person_names) :
                  parse_result.value.person_names[i] # <<>>

\* the value a reply gives for a key, as an Option: a string, or nothing
\* when the key is absent or holds something that is not a string
ReplyText(key) ==
    LET v == json_get(llm_reply, key)
    IN IF v.t = "str" THEN Some(v.s) ELSE None

\* C11: a reply without a medium key parses to medium = InPerson and a
\* reply with any string medium parses to that string unchanged; location
\* defaults to the empty string, and note, their_location and date default
\* to absent.
C11_ParserDefaults ==
    (Parsed /\ parse_result.ok) =>
        LET v == parse_result.value
        IN /\ json_get(llm_reply, "medium").t = "absent" => v.medium = sInPerson
           /\ json_get(llm_reply, "medium").t = "str"
                 => v.medium = json_get(llm_reply, "medium").s
           /\ v.location = unwrap_or_default(ReplyText("location"))
           /\ json_get(llm_reply, "location").t = "absent" => v.location = <<>>
           /\ v.note = ReplyText("note")
           /\ v.their_location = ReplyText("theirLocation")
           /\ v.date = ReplyText("date")
           /\ json_get(llm_reply, "note").t = "absent" => v.note = None
           /\ json_get(llm_reply, "theirLocation").t = "absent" => v.their_location = None
           /\ json_get(llm_reply, "date").t = "absent" => v.date = None

C11_Witness ==
    /\ Parsed /\ parse_result.ok
    /\ json_get(llm_reply, "medium") = JStr(sZoom)
    /\ parse_result.value.medium = sZoom
    /\ json_get(llm_reply, "location").t = "absent"
    /\ json_get(llm_reply, "note").t = "absent"

\* the session is past the review loop: saving, or ended
LeftReview == pc \in {"resolving", "ask_create", "ask_partial", "done"}

InReviewLoop == pc \in {"review", "edit_field", "edit_value"}

FieldNumbers == {str_1, str_2, str_3, str_4, str_5, str_6, str_7}

\* C12: the review loop is left for good only on Save, on Discard or on
\* end-of-input at the choice prompt (which ends the session with nothing
\* stored); a choice of edit goes to the field prompt and from there back
\* to the presentation, any other choice goes straight back to it, after
\* however many iterations; an invalid choice, an invalid field number and
\* end-of-input at the field prompt leave the ParsedInteraction unchanged.
C12_ReviewLoop ==
    [][ /\ pc = "review" =>
            /\ LeftReview' =>
                  \/ line_read' = None /\ pc' = "done" /\ outcome' = "eof_review"
                                     /\ Stores' = Stores
                  \/ line_read' \in {Some(str_s), Some(str_save)}
                  \/ /\ line_read' \in {Some(str_d), Some(str_discard)}
                     /\ pc' = "done" /\ outcome' = "discarded"
            /\ line_read' \in {Some(str_e), Some(str_edit)}
                  => (pc' = "edit_field" /\ current' = current)
            /\ (line_read' # None /\ line_read' \notin
                    {Some(str_s), Some(str_save), Some(str_e), Some(str_edit),
                     Some(str_d), Some(str_discard)})
                  => (pc' = "review" /\ current' = current /\ Stores' = Stores)
        /\ pc = "edit_field" =>
            /\ pc' \in {"review", "edit_value"}
            /\ current' = current
            /\ (line_read' = None \/ line_read'[1] \notin FieldNumbers) => pc' = "review"
        /\ pc = "edit_value" => pc' = "review"
        /\ LeftReview => LeftReview'
      ]_vars

C12_Witness ==
    /\ pc = "review"
    /\ line_read = Some(str_x)
    /\ invalids = 1
    /\ steps = MaxSteps
    /\ current # ai_original

\* the field of the record a field number selects
FieldOf(number) ==
    CASE number = str_1 -> "person_names"
      [] number = str_2 -> "medium"
      [] number = str_3 -> "location"
      [] number = str_4 -> "their_location"
      [] number = str_5 -> "topics"
      [] number = str_6 -> "note"
      [] number = str_7 -> "date"
      [] OTHER -> ""

\* a step of the review loop leaves every field but that of the selected
\* number as it was
OtherFieldsKept ==
    \A k \in DOMAIN current : k # FieldOf(edit_sel) => current'[k] = current[k]

\* the text entered at a value prompt: the line as the prompt returns it,
\* empty at end-of-input
Entered == unwrap_or_default(line_read)

\* the positions of the commas of a text, with the two ends
CommaBounds(text) == {0, Len(text) + 1} \cup {i \in 1..Len(text) : text[i] = 44}

NthBound(text, k) ==
    CHOOSE b \in CommaBounds(text) :
        Cardinality({c \in CommaBounds(text) : c < b}) = k

\* a text without the whitespace at its two ends
Strip(text) ==
    LET inked == {i \in 1..Len(text) : ~IsWhitespace(text[i])}
    IN IF inked = {} THEN <<>>
       ELSE SubSeq(text, CHOOSE i \in inked : \A j \in inked : i <= j,
                         CHOOSE i \in inked : \A j \in inked : i >= j)

\* the entries of a comma-separated text: the pieces between consecutive
\* commas, stripped, without the empty ones
CommaEntries(text) ==
    LET n == Cardinality(CommaBounds(text)) - 1
        pieces == [k \in 1..n |->
                     Strip(SubSeq(text, NthBound(text, k - 1) + 1, NthBound(text, k) - 1))]
    IN SelectSeq(pieces, NonEmptyStr)

\* C13 as stated: for Location, Topics, Note and Date a non-empty input
\* always replaces the field with the entered text (for Topics: with the
\* text itself, or with its comma-separated entries), an empty input on any
\* field keeps the current value, and all other fields are unchanged.
C13_FieldEditsReplace ==
    [][ pc = "edit_value" =>
          /\ (edit_sel = str_3 /\ Entered' # <<>>) => current'.location = Entered'
          /\ (edit_sel = str_5 /\ Entered' # <<>>)
                => current'.topics \in {<<Entered'>>, CommaEntries(Entered')}
          /\ (edit_sel = str_6 /\ Entered' # <<>>) => current'.note = Some(Entered')
          /\ (edit_sel = str_7 /\ Entered' # <<>>) => current'.date = Some(Entered')
          /\ Entered' = <<>> => current' = current
          /\ OtherFieldsKept
      ]_vars

\* C13 as amended: for Location, Note and Date a non-empty input always
\* replaces the field with the entered text; for Topics the input is split
\* on commas, each entry trimmed and empty entries dropped, and the result
\* replaces topics when it is non-empty and is a no-op otherwise; an empty
\* input on any field keeps the current value, and in every case all
\* fields other than the selected one are unchanged.
C13_FieldEditsAmended ==
    [][ pc = "edit_value" =>
          /\ (edit_sel = str_3 /\ Entered' # <<>>) => current'.location = Entered'
          /\ (edit_sel = str_5 /\ Entered' # <<>>)
                => current'.topics =
                      IF CommaEntries(Entered') # <<>>
                      THEN CommaEntries(Entered') ELSE current.topics
          /\ (edit_sel = str_6 /\ Entered' # <<>>) => current'.note = Some(Entered')
          /\ (edit_sel = str_7 /\ Entered' # <<>>) => current'.date = Some(Entered')
          /\ Entered' = <<>> => current' = current
          /\ OtherFieldsKept
      ]_vars

C13_Witness ==
    /\ pc = "review"
    /\ line_read = Some(inTopics)
    /\ current.topics = <<sJob, sTrip>>
    /\ ai_original.topics = <<sJob>>
    /\ current.location = sPark
    /\ ai_original.location = sCafe

\* C14: editing People splits the input on commas, trims each entry and
\* drops the empty ones; the result replaces person_names when it is
\* non-empty, and when it is empty (empty input, or only commas and blanks)
\* the list is retained; no other field changes.
C14_PeopleEdit ==
    [][ (pc = "edit_value" /\ edit_sel = str_1) =>
          /\ current'.person_names =
                IF CommaEntries(Entered') # <<>>
                THEN CommaEntries(Entered') ELSE current.person_names
          /\ current'.person_names # <<>>
          /\ OtherFieldsKept
      ]_vars

C14_Witness ==
    /\ pc = "review"
    /\ line_read = Some(trim(inPeopleAliceBob))
    /\ current.person_names = <<s_alice, sBob>>
    /\ ai_original.person_names = <<sAliceSmith>>

\* C15: editing Medium with input 1..5 sets medium to InPerson, Text,
\* PhoneCall, VideoCall or SocialMedia respectively; an empty input keeps
\* the current value, and any other input keeps it too, the session going
\* on with the presentation.
C15_MediumEdit ==
    [][ (pc = "edit_value" /\ edit_sel = str_2) =>
          /\ current'.medium =
                CASE Entered' = <<49>> -> sInPerson
                  [] Entered' = <<50>> -> sText
                  [] Entered' = <<51>> -> sPhoneCall
                  [] Entered' = <<52>> -> sVideoCall
                  [] Entered' = <<53>> -> sSocialMedia
                  [] OTHER -> current.medium
          /\ OtherFieldsKept
          /\ pc' = "review"
          /\ outcome' = outcome
      ]_vars

C15_Witness ==
    /\ pc = "review"
    /\ line_read = Some(str_4)
    /\ current.medium = sVideoCall
    /\ ai_original.medium = sInPerson

\* C16: while medium is InPerson, selecting field 4 reads no value and
\* leaves their_location and every other field unchanged; their_location
\* changes in the review loop only by a non-empty input at the value prompt
\* of field 4 of a record whose medium is not InPerson.
C16_TheirLocationEdit ==
    [][ /\ (pc = "edit_field" /\ line_read' = Some(str_4) /\ current.medium = sInPerson)
              => (pc' = "review" /\ current' = current)
        /\ (pc = "edit_field" /\ line_read' = Some(str_4) /\ current.medium # sInPerson)
              => pc' = "edit_value"
        /\ (InReviewLoop /\ current'.their_location # current.their_location)
              => /\ pc = "edit_value" /\ edit_sel = str_4
                 /\ current.medium # sInPerson
                 /\ Entered' # <<>>
                 /\ current'.their_location = Some(Entered')
      ]_vars

C16_Witness ==
    /\ pc = "review"
    /\ line_read = Some(str_4)
    /\ current.medium = sInPerson
    /\ current = ai_original
    /\ steps = 1

\* the CorrectionExample of the session
SessionCorrection ==
    [original_text |-> original_text,
     ai_output |-> serde_to_string(ai_original),
     user_output |-> serde_to_string(current)]

PersonsOf(rows) == [i \in 1..Len(rows) |-> rows[i].person]

IsOk(entry) == entry.ok

\* C18: a failed commit is scoped to its person: when a Save commits for
\* the resolved people, a commit is attempted for every one of them, in
\* order, whatever the outcome of the others, and exactly the successful
\* ones are stored.
C18_FailureScopedToPerson ==
    (pc = "done" /\ outcome = "saved") =>
        /\ PersonsOf(commit_log) = resolved
        /\ PersonsOf(NewInteractions) = PersonsOf(SelectSeq(commit_log, IsOk))

C18_Witness ==
    /\ pc = "done" /\ outcome = "saved"
    /\ Len(resolved) = 2
    /\ ~commit_log[1].ok /\ commit_log[1].err = "Database"
    /\ commit_log[2].ok
    /\ PersonsOf(NewInteractions) = <<resolved[2]>>

\* how often a request occurs among those sent
Sent(request) == Cardinality({i \in 1..Len(http_log) : http_log[i] = request})

\* the session ended at the reachability check or at the parse
BackendFailed ==
    pc = "done" /\ outcome \in ({"unreachable", "parse_error"} \cup RequestFailures)

\* C19: in one session the reachability check is sent at most once and
\* the parse request at most once, the parse request only after the check
\* succeeded, and never after the session left its first step; a failed
\* check or a failed parse ends the session before any review and with
\* the stores as they were.
C19_NoRetries ==
    /\ [](/\ Sent(GetRoot) <= 1
          /\ Sent(PostChat) <= 1
          /\ Sent(PostChat) = 1 => http_log = <<GetRoot, PostChat>>
          /\ (pc = "done" /\ outcome = "unreachable") => http_log = <<GetRoot>>
          /\ (pc = "done" /\ outcome \in RequestFailures \cup {"parse_error"})
                => http_log = <<GetRoot, PostChat>>
          /\ InReviewLoop => http_log = <<GetRoot, PostChat>>
          /\ BackendFailed => (Stores = start /\ steps = 0 /\ line_read = None))
    /\ [][ /\ pc # "idle" => http_log' = http_log
           /\ BackendFailed' => pc = "idle"
           /\ pc = "done" => pc' = "done"
         ]_vars

C19_Witness ==
    /\ pc = "done" /\ outcome = "timeout"
    /\ http_log = <<GetRoot, PostChat>>
    /\ original_text = sTea
    /\ Len(people) = 3

\* the owner's corrections the session found, by their position in the
\* table: a later position is a later save
OwnerRows ==
    {i \in 1..Len(start.corrections) : corr_meta[i].owner_id = Owner}

\* the session built its prompt
PromptBuilt == Sent(PostChat) = 1

\* C20: the examples in the prompt are the owner's at most 5 most recently
\* saved corrections, the newest as Example 1, each with its three texts
\* as stored: never more than 5, never one of another owner, never an
\* older correction ahead of a newer one, and none left out that is newer
\* than one shown.
C20_RecentCorrectionsNewestFirst ==
    PromptBuilt =>
        LET block == corrections_block(corrections, recent_rows)
            shown == {recent_rows[i] : i \in 1..Len(recent_rows)}
        IN /\ Len(block) <= 5
           /\ Len(block) = IF Cardinality(OwnerRows) < 5 THEN Cardinality(OwnerRows) ELSE 5
           /\ shown \subseteq OwnerRows
           /\ \A i, j \in 1..Len(recent_rows) : i < j => recent_rows[i] > recent_rows[j]
           /\ \A r \in OwnerRows \ shown : \A q \in shown : r < q
           /\ \A i \in 1..Len(block) :
                 /\ block[i].example = i
                 /\ block[i].input = PastText(recent_rows[i])
                 /\ block[i].parsed = serde_to_string(PastAi)
                 /\ block[i].corrected = serde_to_string(PastUser)

\* the recording holds one value throughout
ConstantInput(c) ==
    /\ audio_in.samples # <<>>
    /\ \A i \in 1..Len(audio_in.samples) : audio_in.samples[i] = c

Resampled == pc = "done" /\ outcome = "resampled"

\* C21 as stated: for every input length and every pair of rates,
\* resampling a constant-valued input yields an output whose samples all
\* equal that constant.
C21_ConstantStaysConstant ==
    Resampled =>
        \A c \in {-8, 0, 4} :
            ConstantInput(c) => \A k \in 1..Len(audio_out) : audio_out[k] = c

\* the source position of output k (from 1), in units of 1 / to_rate
SourcePos(k) == (k - 1) * audio_in.from_rate

\* output k lies between two input samples, or on one
Interior(k) ==
    \/ SourcePos(k) % audio_in.to_rate = 0
    \/ SourcePos(k) \div audio_in.to_rate + 2 <= Len(audio_in.samples)

\* C21 as amended: resampling a constant-valued input of value c yields
\* ceil(len * to_rate / from_rate) samples; each one whose source position
\* falls on an input sample or between two of them equals c, and each one
\* past the last input sample is c * (1 - frac), frac the fractional part of
\* its source position: the end of the output fades towards 0.0.  When the
\* source rate is a multiple of the target rate every sample equals c.
C21_ConstantExceptTail ==
    Resampled =>
        \A c \in {-8, 0, 4} :
            ConstantInput(c) =>
                /\ Len(audio_out) * audio_in.from_rate >= Len(audio_in.samples) * audio_in.to_rate
                /\ (Len(audio_out) - 1) * audio_in.from_rate < Len(audio_in.samples) * audio_in.to_rate
                /\ \A k \in 1..Len(audio_out) :
                      IF Interior(k) THEN audio_out[k] = c
                      ELSE audio_out[k] * audio_in.to_rate =
                              c * (audio_in.to_rate - (SourcePos(k) % audio_in.to_rate))
                /\ audio_in.from_rate % audio_in.to_rate = 0
                      => \A k \in 1..Len(audio_out) : audio_out[k] = c

C21_Witness ==
    /\ Resampled
    /\ audio_in = Recording(<<-8, -8>>, 8000, 16000)
    /\ audio_out = <<-8, -8, -8, -4>>

\* C22: every InPerson interaction the store holds has their_location
\* equal to my_location, whatever their_location the ParsedInteraction of
\* the session carried.
C22_InPersonMirrorsLocation ==
    \A i \in 1..Len(interactions) :
        interactions[i].medium = sInPerson =>
            interactions[i].their_location = Some(interactions[i].my_location)

C22_Witness ==
    /\ pc = "done" /\ outcome = "saved"
    /\ current.medium = sInPerson
    /\ current.their_location = Some(sPark)
    /\ Len(NewInteractions) = 1
    /\ NewInteractions[1].my_location = sCafe
    /\ NewInteractions[1].their_location = Some(sCafe)

\* the last step was a call of log_in_person or log_remote that returned
\* an error
LogFailed == op_result.op \in {"log_in_person", "log_remote"} /\ ~op_result.ok

\* C27: whenever log_in_person or log_remote returns an error, no
\* interaction row and no topic row has been added to the store.
C27_LogAtomicOnFailure == [][LogFailed' => interactions' = interactions]_vars

\* the name the create-contact question is about
AskedName == current.person_names[name_idx]

\* the answer just read accepts the offer
Accepted == line_read' # None /\ to_lowercase(line_read'[1]) \in {<<121>>, <<121, 101, 115>>}

\* the step adds exactly one person, of the given name, and resolves the
\* asked name to it
CreatesAndResolves(name) ==
    /\ people' = Append(people, [name |-> name, nickname |-> None,
                                 is_self |-> FALSE, archived |-> FALSE])
    /\ resolved' = Append(resolved, Len(people'))

\* C23 as stated: at the create-contact question, accepting adds exactly
\* one new person with that name and resolves the name to that person;
\* declining, or end-of-input, adds no person and leaves the name
\* unresolved.
C23_CreateOffer ==
    [][ pc = "ask_create" =>
          IF Accepted THEN CreatesAndResolves(AskedName)
          ELSE people' = people /\ resolved' = resolved
      ]_vars

\* C23 as amended: accepting adds exactly one new person, named with the
\* asked name without the whitespace at its ends, and resolves the name to
\* that person, unless the name is blank: then nothing is added and the
\* name stays unresolved, as after declining or end-of-input.
C23_CreateOfferTrimmed ==
    [][ pc = "ask_create" =>
          IF Accepted /\ Strip(AskedName) # <<>>
          THEN CreatesAndResolves(Strip(AskedName))
          ELSE people' = people /\ resolved' = resolved
      ]_vars

C23_Witness ==
    /\ pc = "resolving"
    /\ name_idx = 2
    /\ line_read = Some(str_y)
    /\ current.person_names = <<sBlank, sPadBob>>
    /\ res_log = <<LogEntry(sBlank, Resolution("NotFound", 0, {}), FALSE)>>
    /\ resolved = <<>>
    /\ people = start.people

\* the step is a call of the operation op on people: op_result' tells
\* which, and add_person, which leaves no result, lengthens the table
PeopleCall(op) == op_result'.op = op /\ Len(people') = Len(people)

\* the person a call was given exists
TargetExists == op_result'.target \in 1..Len(people)

\* C24: after any sequence of add_person, archive_person and
\* unarchive_person calls the self person is never archived: archive_person
\* on the self person fails with CannotArchiveSelf and leaves the stored
\* person unchanged, archiving any other existing person succeeds, and
\* unarchive makes it active again.
C24_SelfNeverArchived ==
    /\ [](\A i \in 1..Len(people) : people[i].is_self => ~people[i].archived)
    /\ [][ /\ (PeopleCall("archive_person") /\ TargetExists) =>
                IF people[op_result'.target].is_self
                THEN /\ ~op_result'.ok
                     /\ op_result'.err = "CannotArchiveSelf"
                     /\ people' = people
                ELSE /\ op_result'.ok
                     /\ people' = [people EXCEPT ![op_result'.target].archived = TRUE]
           /\ (PeopleCall("unarchive_person") /\ TargetExists) =>
                /\ op_result'.ok
                /\ people' = [people EXCEPT ![op_result'.target].archived = FALSE]
         ]_vars

C24_Witness ==
    /\ op_result = OpResult("archive_person", 1, <<>>, FALSE, "CannotArchiveSelf")
    /\ Len(people) = 3
    /\ people[1].is_self /\ ~people[1].archived
    /\ people[2].archived
    /\ ~people[3].archived

\* two names are equal ignoring case
SameIgnoringCase(a, b) == to_lowercase(a) = to_lowercase(b)

\* a label other than `self` carries the name n, ignoring case
WouldDuplicate(self, n) ==
    \E i \in (1..Len(labels)) \ {self} : SameIgnoringCase(labels[i].name, n)

Rejected == ~op_result'.ok /\ op_result'.err = "AlreadyExists" /\ labels' = labels

\* C25: after any sequence of add_label, update_label, archive_label and
\* unarchive_label calls no two labels of the owner have names that are
\* equal ignoring case; an add or a rename that would create such a
\* duplicate fails with AlreadyExists and changes nothing, while renaming a
\* label to its own name succeeds.
C25_LabelNamesUnique ==
    /\ [](\A i, j \in 1..Len(labels) :
            i < j => ~SameIgnoringCase(labels[i].name, labels[j].name))
    /\ [][ /\ (op_result'.op = "add_label" /\ WouldDuplicate(0, Strip(op_result'.arg)))
                => Rejected
           /\ ( /\ op_result'.op = "update_label"
                /\ op_result'.target \in 1..Len(labels)
                /\ op_result'.arg # None )
                => /\ WouldDuplicate(op_result'.target, Strip(op_result'.arg[1])) => Rejected
                   /\ op_result'.arg[1] = labels[op_result'.target].name
                         => (op_result'.ok /\ labels' = labels)
         ]_vars

\* the medium of the record under review is none of the five recognised
UnknownMedium == current.medium \notin MediumNames

\* the session is between the parser's answer and its end
InSession == pc \in {"review", "edit_field", "edit_value", "resolving",
                     "ask_create", "ask_partial"}

\* what log_in_person makes of the record under review for the k-th
\* resolved person
AsInPerson(k) ==
    log_in_person(people, resolved[k], current.location, current.topics,
                  current.note, Today)

\* C26: a medium string that is none of the five recognised values is kept
\* as it is by the parser and by the review (only an edit of the medium
\* replaces it), and Save commits the record as an InPerson interaction:
\* each resolved person is logged as log_in_person would log them (refused
\* only for what log_in_person refuses, or by the store), and every row
\* added is InPerson with their_location equal to my_location, whatever
\* their_location the record carries.
C26_UnknownMediumCommittedInPerson ==
    /\ [](( /\ parse_result.ok
            /\ llm_reply.obj["medium"].t = "str"
            /\ llm_reply.obj["medium"].s \notin MediumNames )
              => ai_original.medium = llm_reply.obj["medium"].s)
    /\ [][ ( /\ InSession /\ UnknownMedium
             /\ ~(pc = "edit_value" /\ edit_sel = str_2) )
              => /\ current'.medium = current.medium
                 /\ outcome' \in {outcome, "saved", "discarded", "eof_review",
                                  "location_required", "no_people",
                                  "eof_partial", "partial_declined"} ]_vars
    /\ []( (pc = "done" /\ outcome = "saved" /\ UnknownMedium)
              => /\ Len(commit_log) = Len(resolved)
                 /\ \A k \in 1..Len(resolved) :
                       /\ commit_log[k].person = resolved[k]
                       /\ ~AsInPerson(k).ok
                             => (~commit_log[k].ok /\ commit_log[k].err = AsInPerson(k).err)
                       /\ commit_log[k].ok
                             => \E i \in 1..Len(NewInteractions) :
                                   /\ NewInteractions[i].person = resolved[k]
                                   /\ NewInteractions[i].topics = AsInPerson(k).row.topics
                 /\ \A i \in 1..Len(NewInteractions) :
                       /\ NewInteractions[i].medium = sInPerson
                       /\ NewInteractions[i].my_location = trim(current.location)
                       /\ NewInteractions[i].their_location = Some(trim(current.location)) )

C26_Witness ==
    /\ pc = "done" /\ outcome = "saved"
    /\ ai_original.medium = sZoom
    /\ current.medium = sZoom
    /\ current.their_location = Some(sPark)
    /\ steps > 0
    /\ Len(commit_log) >= 1 /\ commit_log[1].ok
    /\ Len(NewInteractions) >= 1
    /\ NewInteractions[1].medium = sInPerson
    /\ NewInteractions[1].their_location = Some(sCafe)

\* C28: one Save commits at most one interaction per person: no two of
\* the interactions a session adds are for the same person, and no person
\* is committed twice, also when two names of person_names resolve to the
\* same contact or a name resolves to a contact created earlier in the
\* same Save.
C28_OneInteractionPerPerson ==
    /\ \A i, j \in 1..Len(NewInteractions) :
          i < j => NewInteractions[i].person # NewInteractions[j].person
    /\ \A i, j \in 1..Len(commit_log) :
          i < j => commit_log[i].person # commit_log[j].person

\* C30: a session never commits an interaction for the owner's self
\* record: no parsed name resolves to the self person and no interaction
\* added by a session is for the self person.
C30_SessionNeverCommitsForSelf ==
    /\ \A k \in 1..Len(resolved) : ~people[resolved[k]].is_self
    /\ \A i \in 1..Len(NewInteractions) : ~people[NewInteractions[i].person].is_self

\* an optional field that has a value
HasValue(opt) == opt # None /\ opt[1] # <<>>

\* C29: while a session is under review (and until it ends) person_names
\* and topics are non-empty, and no step empties or clears a field that is
\* set: a non-empty location stays non-empty, and a note, date or
\* their_location that is present stays present, one with a value keeps
\* having a value.
C29_ReviewKeepsFieldsSet ==
    /\ [](InSession => (current.person_names # <<>> /\ current.topics # <<>>))
    /\ [][ InSession =>
             /\ current.location # <<>> => current'.location # <<>>
             /\ current.note # None => current'.note # None
             /\ current.date # None => current'.date # None
             /\ current.their_location # None => current'.their_location # None
             /\ HasValue(current.note) => HasValue(current'.note)
             /\ HasValue(current.date) => HasValue(current'.date)
             /\ HasValue(current.their_location) => HasValue(current'.their_location)
         ]_vars

\* an edit that typed only commas has been read and has left the record,
\* all of whose fields are set, as the parser gave it
C29_Witness ==
    /\ pc = "review"
    /\ steps > 0
    /\ line_read = Some(inCommas)
    /\ current = ai_original
    /\ current.topics = <<sJob, sTrip>>
    /\ current.location = sHome
    /\ HasValue(current.note) /\ HasValue(current.date)
    /\ HasValue(current.their_location)

====
